---- MODULE Spec2Model ----
(***************************************************************************)
(* Model of the systemd service installer: ServiceConfig, Manager, the     *)
(* Install and Uninstall sequences of main.go, the non-blocking            *)
(* notification channels and the external world they act on (accounts,     *)
(* files, systemctl).                                                      *)
(*                                                                         *)
(* One step of the model is one stage of a call: its external command or   *)
(* file operation together with the notification that reports its outcome. *)
(***************************************************************************)
EXTENDS Integers, Sequences, FiniteSets, TLC

(***************************************************************************)
(* Bounds of the model.                                                    *)
(***************************************************************************)
MaxCalls == 2       \* Install/Uninstall calls made on the Manager
MaxFairCalls == 1   \* the same, in the specification with fairness
MaxCap == 1         \* largest buffer capacity of a notification channel
MaxStreams == 2     \* largest number of entries of the stream mapping
MaxPathLen == 4     \* longest enumerated binary path, in characters
MaxOpts == 2        \* most options handed to one NewServiceConfig call
MaxSenders == 2     \* goroutines that send notifications at the same time
MaxSends == 2       \* calls of m.infof / m.error each of them makes
MaxNameLen == 3     \* longest string handed to sanitize on its own, in characters
MaxRuns == 2        \* times the writers render one and the same config
MaxTwinCalls == 1   \* calls made in each of two runs compared step by step

(***************************************************************************)
(* Values of the model.                                                    *)
(***************************************************************************)
\* An error value: its message and the errno os.IsNotExist looks at.
NilErr == [msg |-> "<nil>", errno |-> "none"]
Running == "<running>"    \* the value of ret while no call has returned

StreamPool == <<"CORE", "AUX", "AUDIT", "TRACE">>
FilePool == <<"core.log", "aux.log", "audit.log", "trace.log">>

\* A Go map: nil, or a finite mapping kv.  len and range treat nil as empty.
NilMap == [isNil |-> TRUE, kv |-> [k \in {} |-> ""]]
MakeMap(n) ==
  [isNil |-> FALSE,
   kv |-> [k \in {StreamPool[i] : i \in 1..n} |->
             FilePool[CHOOSE i \in 1..n : StreamPool[i] = k]]]
MapKeys(m) == DOMAIN m.kv
MapLen(m) == Cardinality(DOMAIN m.kv)

\* All orders in which a range over a map can visit the keys S.
Orders(S) ==
  {s \in [1..Cardinality(S) -> S] : \A i, j \in 1..Cardinality(S) : i # j => s[i] # s[j]}

\* The ServiceConfig values handed to NewManager.
CallerConfigs ==
  [User : {"svc"}, Group : {"svc"},
   UniqueName : {"bin-app"}, ServiceName : {"bin-app.service"},
   BinaryPath : {"/opt/app/bin/app"},
   LogDir : {"", "/var/log/app"},
   SystemdFile : {""},
   ServiceLines : {<<"NotifyAccess=main">>},
   MakeLogrotate : BOOLEAN,
   Streams : {NilMap} \cup {MakeMap(n) : n \in 0..MaxStreams}]

\* A notification channel as the Manager holds it: nil (not configured), or a
\* channel of capacity cap with its buffered messages; rdy says a receiver is
\* blocked in a receive on it.
NilChan == [nil |-> TRUE, cap |-> 0, buf |-> <<>>, rdy |-> FALSE]
MakeChan(n) == [nil |-> FALSE, cap |-> n, buf |-> <<>>, rdy |-> FALSE]
Channels == {NilChan} \cup {MakeChan(n) : n \in 0..MaxCap}

\* NewManager that sets the default unit file path whatever the config holds.
NewManager_AlwaysDefault(c0) ==
  LET c1 == [c0 EXCEPT !.SystemdFile = "/etc/systemd/system/" \o c0.ServiceName]
  IN IF c1.MakeLogrotate /\ c1.LogDir = ""
     THEN [c1 EXCEPT !.MakeLogrotate = FALSE]
     ELSE c1

\* NewManager without the guard on MakeLogrotate.
NewManager_KeepFlag(c0) ==
  IF c0.SystemdFile = ""
  THEN [c0 EXCEPT !.SystemdFile = "/etc/systemd/system/" \o c0.ServiceName]
  ELSE c0

\* NewManager: copy of the config with the SystemdFile default and the
\* logrotate guard applied.
NewManager(c0) ==
  LET c1 == IF c0.SystemdFile = ""
            THEN [c0 EXCEPT !.SystemdFile = "/etc/systemd/system/" \o c0.ServiceName]
            ELSE c0
  IN IF c1.MakeLogrotate /\ c1.LogDir = ""
     THEN [c1 EXCEPT !.MakeLogrotate = FALSE]
     ELSE c1

rsyslogPath(c) == "/etc/rsyslog.d/" \o c.UniqueName \o ".conf"
logrotateCorePath(c) == "/etc/logrotate.d/" \o c.UniqueName

(***************************************************************************)
(* NewServiceConfig and its options (options.go).  The binary path is a    *)
(* string of characters, modelled as a sequence of one-character strings,  *)
(* so that filepath.Base, filepath.Dir and sanitize work on it character   *)
(* by character as the code does.                                          *)
(***************************************************************************)
\* The characters the pattern [^a-zA-Z0-9_-] of sanitize does not match.
AllowedChars ==
  {"a", "b", "c", "d", "e", "f", "g", "h", "i", "j", "k", "l", "m", "n", "o",
   "p", "q", "r", "s", "t", "u", "v", "w", "x", "y", "z", "A", "B", "C", "D",
   "E", "F", "G", "H", "I", "J", "K", "L", "M", "N", "O", "P", "Q", "R", "S",
   "T", "U", "V", "W", "X", "Y", "Z", "0", "1", "2", "3", "4", "5", "6", "7",
   "8", "9", "_", "-"}

IsAllowed(ch) == ch \in AllowedChars

\* sanitize with ReplaceString semantics of a single match: only the first
\* character the pattern matches is deleted.
RECURSIVE sanitize_Once(_)
sanitize_Once(s) ==
  IF s = <<>> THEN <<>>
  ELSE IF ~IsAllowed(Head(s)) THEN Tail(s)
  ELSE <<Head(s)>> \o sanitize_Once(Tail(s))

\* sanitize: ReplaceAllString(s, "") deletes every character the pattern
\* matches and keeps the others in place.
sanitize(s) == SelectSeq(s, IsAllowed)

\* The Go string of a sequence of characters.
RECURSIVE Str(_)
Str(s) == IF s = <<>> THEN "" ELSE Head(s) \o Str(Tail(s))

\* The index of the last separator of p, 0 if it has none.
LastSlash(p) ==
  LET S == {i \in 1..Len(p) : p[i] = "/"}
  IN IF S = {} THEN 0 ELSE CHOOSE i \in S : \A j \in S : j <= i

\* p without its trailing separators.
RECURSIVE StripSlashes(_)
StripSlashes(p) ==
  IF p # <<>> /\ p[Len(p)] = "/" THEN StripSlashes(SubSeq(p, 1, Len(p) - 1)) ELSE p

\* filepath.Base: the last element of the path, trailing separators removed
\* first; "." for the empty path, "/" for a path of separators only.
Base(p) ==
  IF p = <<>> THEN <<".">>
  ELSE LET q == StripSlashes(p)
           r == SubSeq(q, LastSlash(q) + 1, Len(q))
       IN IF r = <<>> THEN <<"/">> ELSE r

\* The elements of p between its separators, empty ones included.
RECURSIVE SplitPath(_, _)
SplitPath(p, cur) ==
  IF p = <<>> THEN <<cur>>
  ELSE IF Head(p) = "/" THEN <<cur>> \o SplitPath(Tail(p), <<>>)
  ELSE SplitPath(Tail(p), Append(cur, Head(p)))

IsElement(seg) == seg # <<>> /\ seg # <<".">>

\* filepath.Clean's pass over the elements: ".." removes the element before
\* it, is dropped at the root and is kept at the start of a relative path.
RECURSIVE CleanElements(_, _, _)
CleanElements(segs, out, rooted) ==
  IF segs = <<>> THEN out
  ELSE LET s == Head(segs)
           n == Len(out)
       IN IF s # <<".", ".">> THEN CleanElements(Tail(segs), Append(out, s), rooted)
          ELSE IF n > 0 /\ out[n] # <<".", ".">>
               THEN CleanElements(Tail(segs), SubSeq(out, 1, n - 1), rooted)
          ELSE IF rooted THEN CleanElements(Tail(segs), out, rooted)
          ELSE CleanElements(Tail(segs), Append(out, s), rooted)

RECURSIVE JoinPath(_)
JoinPath(segs) ==
  IF segs = <<>> THEN <<>>
  ELSE IF Len(segs) = 1 THEN Head(segs)
  ELSE Head(segs) \o <<"/">> \o JoinPath(Tail(segs))

\* filepath.Clean: the shortest path equivalent to p by lexical processing.
Clean(p) ==
  IF p = <<>> THEN <<".">>
  ELSE LET rooted == Head(p) = "/"
           out == CleanElements(SelectSeq(SplitPath(p, <<>>), IsElement), <<>>, rooted)
       IN IF rooted THEN <<"/">> \o JoinPath(out)
          ELSE IF out = <<>> THEN <<".">> ELSE JoinPath(out)

\* filepath.Dir: all but the last element of the path, cleaned.
Dir(p) == Clean(SubSeq(p, 1, LastSlash(p)))

\* A ServiceOpt value: the option t with its string arguments a, b, d and, for
\* WithStreams, its map m.
NoKV == [k \in {} |-> ""]
Opt(t, a, b, d, m) == [t |-> t, a |-> a, b |-> b, d |-> d, m |-> m]
WithWatchdog(sec) == Opt("WithWatchdog", sec, "", "", NoKV)
WithServiceLine(line) == Opt("WithServiceLine", line, "", "", NoKV)
WithJournal == Opt("WithJournal", "", "", "", NoKV)
WithUMask(umask) == Opt("WithUMask", umask, "", "", NoKV)
WithLimitNOFILE(limit) == Opt("WithLimitNOFILE", limit, "", "", NoKV)
WithExecReload(restart, start, stop) == Opt("WithExecReload", restart, start, stop, NoKV)
WithNotifyAccess == Opt("WithNotifyAccess", "", "", "", NoKV)
WithLogrotate == Opt("WithLogrotate", "", "", "", NoKV)
WithStream(name, file) == Opt("WithStream", name, file, "", NoKV)
WithStreams(streams) == Opt("WithStreams", "", "", "", streams)
\* A ServiceOpt the caller wrote itself:
\* func(c *ServiceConfig) { c.<field> = value }.
SetField(field, value) == Opt("SetField", field, value, "", NoKV)

\* The lines an option appends to ServiceLines.
OptLines(o) ==
  CASE o.t = "WithWatchdog" -> <<"WatchdogSec=" \o o.a>>
    [] o.t = "WithServiceLine" -> <<o.a>>
    [] o.t = "WithJournal" -> <<"StandardOutput=journal", "StandardError=journal">>
    [] o.t = "WithUMask" -> <<"UMask=" \o o.a>>
    [] o.t = "WithLimitNOFILE" -> <<"LimitNOFILE=" \o o.a>>
    [] o.t = "WithExecReload" ->
         <<"ExecReload=/bin/kill -HUP $MAINPID", "RestartSec=" \o o.a,
           "KillSignal=SIGTERM", "TimeoutStartSec=" \o o.b, "TimeoutStopSec=" \o o.d>>
    [] o.t = "WithNotifyAccess" -> <<"NotifyAccess=main">>
    [] OTHER -> <<>>

\* c.ServiceLines = append(c.ServiceLines, lines...), put in front of the
\* lines already there.
AppendLines_InFront(c, lines) == [c EXCEPT !.ServiceLines = lines \o @]

\* c.ServiceLines = append(c.ServiceLines, lines...)
AppendLines(c, lines) == [c EXCEPT !.ServiceLines = @ \o lines]

\* WithLogrotate that looks at LogDir before it sets the flag.
SetLogrotate_IfLogDir(c) == [c EXCEPT !.MakeLogrotate = (c.LogDir # "")]

\* WithLogrotate: c.MakeLogrotate = true
SetLogrotate(c) == [c EXCEPT !.MakeLogrotate = TRUE]

\* maps.Copy(dst, src) that keeps the entries dst already has.
CopyStreams_KeepFirst(c, src) ==
  [c EXCEPT !.Streams =
     [isNil |-> FALSE,
      kv |-> [k \in DOMAIN c.Streams.kv \cup DOMAIN src |->
                IF k \in DOMAIN c.Streams.kv THEN c.Streams.kv[k] ELSE src[k]]]]

\* The map made if c.Streams is nil, then maps.Copy(c.Streams, src): every
\* pair of src is stored, over whatever the key had before.
CopyStreams(c, src) ==
  [c EXCEPT !.Streams =
     [isNil |-> FALSE,
      kv |-> [k \in DOMAIN c.Streams.kv \cup DOMAIN src |->
                IF k \in DOMAIN src THEN src[k] ELSE c.Streams.kv[k]]]]

\* WithStream: the map made if c.Streams is nil, then c.Streams[name] = file.
SetStream(c, name, file) ==
  [c EXCEPT !.Streams =
     [isNil |-> FALSE,
      kv |-> [k \in DOMAIN c.Streams.kv \cup {name} |->
                IF k = name THEN file ELSE c.Streams.kv[k]]]]

\* opt(&config): what one option does to the config under construction.
ApplyOpt(o, c) ==
  CASE o.t = "WithLogrotate" -> SetLogrotate(c)
    [] o.t = "WithStream" -> SetStream(c, o.a, o.b)
    [] o.t = "WithStreams" -> CopyStreams(c, o.m)
    [] o.t = "SetField" -> [c EXCEPT ![o.a] = o.b]
    [] OTHER -> AppendLines(c, OptLines(o))

\* uniqueName of NewServiceConfig, without sanitize.
UniqueNameOf_Raw(bin) == Str(Base(Dir(bin))) \o "-" \o Str(Base(bin))

\* uniqueName of NewServiceConfig: "<dirName>-<baseName>".
UniqueNameOf(bin) ==
  LET baseName == sanitize(Base(bin))
      dirName == sanitize(Base(Dir(bin)))
  IN Str(dirName) \o "-" \o Str(baseName)

\* The base configuration without the SystemdFile default.
BaseConfig_NoPath(user, group, bin, logDir) ==
  LET uniqueName == UniqueNameOf(bin)
      serviceName == uniqueName \o ".service"
  IN [User |-> user, Group |-> group,
      UniqueName |-> uniqueName, ServiceName |-> serviceName,
      BinaryPath |-> Str(bin),
      LogDir |-> logDir,
      SystemdFile |-> "",
      ServiceLines |-> <<>>,
      MakeLogrotate |-> FALSE,
      Streams |-> NilMap]

\* The base configuration of NewServiceConfig, before the options.
BaseConfig(user, group, bin, logDir) ==
  LET uniqueName == UniqueNameOf(bin)
      serviceName == uniqueName \o ".service"
  IN [User |-> user, Group |-> group,
      UniqueName |-> uniqueName, ServiceName |-> serviceName,
      BinaryPath |-> Str(bin),
      LogDir |-> logDir,
      SystemdFile |-> "/etc/systemd/system/" \o serviceName,
      ServiceLines |-> <<>>,
      MakeLogrotate |-> FALSE,
      Streams |-> NilMap]

(***************************************************************************)
(* Renderers.  A file's text is modelled as the sequence of its lines.     *)
(***************************************************************************)
\* writeSystemdUnit with the ServiceLines written last line first.
unitText_Reversed(c) ==
  LET n == Len(c.ServiceLines)
  IN <<"[Unit]",
       "Description=" \o c.UniqueName,
       "After=network.target",
       "",
       "[Service]",
       "Type=notify",
       "ExecStart=" \o c.BinaryPath,
       "Restart=on-failure",
       "User=" \o c.User,
       "Group=" \o c.Group>>
     \o [i \in 1..n |-> c.ServiceLines[n + 1 - i]]
     \o <<"[Install]", "WantedBy=multi-user.target">>

unitText(c) ==
  <<"[Unit]",
    "Description=" \o c.UniqueName,
    "After=network.target",
    "",
    "[Service]",
    "Type=notify",
    "ExecStart=" \o c.BinaryPath,
    "Restart=on-failure",
    "User=" \o c.User,
    "Group=" \o c.Group>>
  \o c.ServiceLines
  \o <<"[Install]", "WantedBy=multi-user.target">>

\* streamConfig without the stop directive of the rule.
streamConfig_NoStop(c, streamName) ==
  <<"if $msg contains 'stream=" \o streamName \o "' then {",
    "\taction(type=\"omfile\" file=\"" \o c.LogDir \o "/" \o c.Streams.kv[streamName]
       \o "\" template=\"" \o c.UniqueName \o "\"",
    "         dirCreateMode=\"0750\" dirOwner=\"" \o c.User
       \o "\" dirGroup=\"" \o c.Group \o "\"",
    "\t\t fileCreateMode=\"0640\" fileOwner=\"" \o c.User
       \o "\" fileGroup=\"" \o c.Group \o "\")",
    "}">>

streamConfig(c, streamName) ==
  <<"if $msg contains 'stream=" \o streamName \o "' then {",
    "\taction(type=\"omfile\" file=\"" \o c.LogDir \o "/" \o c.Streams.kv[streamName]
       \o "\" template=\"" \o c.UniqueName \o "\"",
    "         dirCreateMode=\"0750\" dirOwner=\"" \o c.User
       \o "\" dirGroup=\"" \o c.Group \o "\"",
    "\t\t fileCreateMode=\"0640\" fileOwner=\"" \o c.User
       \o "\" fileGroup=\"" \o c.Group \o "\")",
    "\tstop",
    "}">>

RECURSIVE joinConfigs(_, _)
joinConfigs(c, order) ==
  IF order = <<>> THEN <<>>
  ELSE streamConfig(c, Head(order)) \o joinConfigs(c, Tail(order))

\* The rsyslog text when the range over c.Streams visits the keys in `order`.
rsyslogText(c, order) ==
  <<"module(load=\"imuxsock\")",
    "module(load=\"imklog\")",
    "module(load=\"omfile\")",
    "template(name=\"" \o c.UniqueName \o "\" type=\"string\" string=\"%msg%\\n\")">>
  \o joinConfigs(c, order)

logrotateConfig(c, streamName) ==
  <<c.LogDir \o "/" \o c.Streams.kv[streamName] \o " {",
    "\tweekly", "\trotate 8", "\tsize 100M", "\tcompress", "\tdelaycompress",
    "\tmissingok", "\tnotifempty",
    "\tcreate 0640 " \o c.User \o " " \o c.Group,
    "\tsharedscripts", "\tpostrotate",
    "\t\tsystemctl kill -s HUP rsyslog.service",
    "\tendscript", "}">>

\* configPath of writeLogrotateConfs without the "-" between slug and stream.
logrotatePath_NoDash(c, streamName) == logrotateCorePath(c) \o streamName

logrotatePath(c, streamName) == logrotateCorePath(c) \o "-" \o streamName

(***************************************************************************)
(* State.                                                                  *)
(***************************************************************************)
VARIABLES
  build,      \* the caller's side: NewServiceConfig's progress and the caller's ServiceConfig
  peer,       \* a second ServiceConfig, for what two services generate
  senders,    \* the goroutines that call m.infof / m.error at the same time
  cfg,        \* the Manager's copy of the ServiceConfig (m.cfg)
  infoChan,   \* m.infoChan
  errChan,    \* m.errChan
  users,      \* system users that exist
  groups,     \* system groups that exist
  fs,         \* the files that exist: path -> text
  svc,        \* what systemd holds for the service: enabled, active
  op,         \* the call in progress: "idle", "Install" or "Uninstall"
  pc,         \* the position of the call in its code
  pending,    \* stream names the range of writeLogrotateConfs has yet to visit
  idx,        \* index of the Uninstall loop into filesToRemove
  ret,        \* the value the last call returned
  log,        \* what the call in progress (or the last one) did, in order
  hist        \* the calls that returned, in order: operation, and whether it returned nil

vars == <<build, peer, senders, cfg, infoChan, errChan, users, groups, fs, svc, op, pc,
          pending, idx, ret, log, hist>>

\* The parts of the state that a run of one Manager's Install and Uninstall
\* never touches: no NewServiceConfig in progress, no second service, no
\* goroutine sending beside the call.
NoBuild == [stage |-> "none"]

NoPeer == [stage |-> "none"]

NoSenders == <<>>

\* An entry of log: k the kind of operation ("probe", "cmd", "write", "remove",
\* "info", "err"), a its argument (command line, path or message), r its outcome
\* ("-" for a notification: what became of it shows in the channel).
Ev(k, a, r) == [k |-> k, a |-> a, r |-> r]

\* os.WriteFile that appends to a file that exists.
FsWrite_Append(path, text) ==
  [p \in DOMAIN fs \cup {path} |->
     IF p = path THEN (IF path \in DOMAIN fs THEN fs[path] \o text ELSE text) ELSE fs[p]]

FsWrite(path, text) == [p \in DOMAIN fs \cup {path} |-> IF p = path THEN text ELSE fs[p]]
FsRemove(path) == [p \in DOMAIN fs \ {path} |-> fs[p]]

(***************************************************************************)
(* Notification channels.                                                  *)
(***************************************************************************)
\* A send that proceeds only into an empty buffer, or to a waiting receiver.
CanSend_OnlyEmpty(ch) == ch.rdy \/ (ch.cap > 0 /\ ch.buf = <<>>)

\* A send on ch can proceed at once: a receiver is waiting or the buffer has room.
CanSend(ch) == ch.rdy \/ Len(ch.buf) < ch.cap

\* The channel after a send that proceeded: the waiting receiver takes the
\* message, otherwise it is buffered.
Sent(ch, msg) ==
  IF ch.rdy THEN [ch EXCEPT !.rdy = FALSE] ELSE [ch EXCEPT !.buf = Append(@, msg)]

\* A blocking send in place of the select with a default case.
infof_Blocking(ch, msg) ==
  IF ch.nil THEN [ready |-> TRUE, ch |-> ch, r |-> "nochan"]
  ELSE [ready |-> CanSend(ch), ch |-> Sent(ch, msg), r |-> "sent"]

\* Manager.infof on channel ch with the formatted message msg: ready says
\* whether the call can complete, ch is the channel afterwards, r what happened
\* to the message.
infof(ch, msg) ==
  IF ch.nil THEN [ready |-> TRUE, ch |-> ch, r |-> "nochan"]
  ELSE IF CanSend(ch) THEN [ready |-> TRUE, ch |-> Sent(ch, msg), r |-> "sent"]
  ELSE [ready |-> TRUE, ch |-> ch, r |-> "dropped"]

\* A blocking send in place of the select with a default case.
error_Blocking(ch, e) ==
  IF ch.nil \/ e = NilErr THEN [ready |-> TRUE, ch |-> ch, r |-> "nochan"]
  ELSE [ready |-> CanSend(ch), ch |-> Sent(ch, e.msg), r |-> "sent"]

\* Manager.error on channel ch with error e.
error(ch, e) ==
  IF ch.nil \/ e = NilErr THEN [ready |-> TRUE, ch |-> ch, r |-> "nochan"]
  ELSE IF CanSend(ch) THEN [ready |-> TRUE, ch |-> Sent(ch, e.msg), r |-> "sent"]
  ELSE [ready |-> TRUE, ch |-> ch, r |-> "dropped"]

\* The observer: a receive on a channel takes the oldest buffered message, or
\* blocks waiting for the next send.  A receive blocked on an empty buffered
\* channel is the receive that follows the next send, so only a receive on an
\* unbuffered channel is held as waiting.
Receive(ch) ==
  IF ch.buf # <<>> THEN [ch EXCEPT !.buf = Tail(@)]
  ELSE IF ch.cap = 0 THEN [ch EXCEPT !.rdy = TRUE]
  ELSE ch

\* A waiting receiver gives up (a select with a timeout).
Leave(ch) == [ch EXCEPT !.rdy = FALSE]

ObserveInfo ==
  /\ ~infoChan.nil
  /\ infoChan' \in {Receive(infoChan), Leave(infoChan)}
  /\ infoChan' # infoChan
  /\ UNCHANGED <<build, peer, senders, cfg, errChan, users, groups, fs, svc, op, pc, pending, idx, ret, log, hist>>

ObserveErr ==
  /\ ~errChan.nil
  /\ errChan' \in {Receive(errChan), Leave(errChan)}
  /\ errChan' # errChan
  /\ UNCHANGED <<build, peer, senders, cfg, infoChan, users, groups, fs, svc, op, pc, pending, idx, ret, log, hist>>

(***************************************************************************)
(* Errors.                                                                 *)
(***************************************************************************)
\* execCommand's error for a command that exited non-zero.
CmdErr(cmdline) == [msg |-> "command '" \o cmdline \o "' failed", errno |-> "exit"]
WriteErr(path) == [msg |-> "open " \o path \o ": permission denied", errno |-> "EACCES"]
RemoveErr(path) == [msg |-> "remove " \o path \o ": operation not permitted", errno |-> "EPERM"]
NotExistErr(path) == [msg |-> "remove " \o path \o ": no such file or directory", errno |-> "ENOENT"]
\* fmt.Errorf("prefix: %w", e)
Wrap(prefix, e) == [e EXCEPT !.msg = prefix \o ": " \o @]
\* os.IsNotExist that recognises no error.
IsNotExist_Never(e) == FALSE

IsNotExist(e) == e.errno = "ENOENT"

(***************************************************************************)
(* Init.                                                                   *)
(***************************************************************************)
Init ==
  /\ build = NoBuild
  /\ peer = NoPeer
  /\ senders = NoSenders
  /\ cfg \in {NewManager(c0) : c0 \in CallerConfigs}
  /\ infoChan \in Channels
  /\ errChan \in Channels
  /\ users = {}
  /\ groups = {}
  /\ fs = [p \in {} |-> <<>>]
  /\ svc = [enabled |-> FALSE, active |-> FALSE]
  /\ op = "idle"
  /\ pc = "idle"
  /\ pending = {}
  /\ idx = 0
  /\ ret = Running
  /\ log = <<>>
  /\ hist = <<>>

(***************************************************************************)
(* The parts shared by the stages of Install and Uninstall.                *)
(***************************************************************************)
IdCmd(c) == "id -u " \o c.User
UseraddCmd(c) == "useradd --system --no-create-home --shell /usr/sbin/nologin " \o c.User
GetentCmd(c) == "getent group " \o c.Group
GroupaddCmd(c) == "groupadd --system " \o c.Group
ReloadCmd == "systemctl daemon-reload"
EnableCmd(c) == "systemctl enable --now " \o c.ServiceName
DisableCmd(c) == "systemctl disable " \o c.ServiceName
StopCmd(c) == "systemctl stop " \o c.ServiceName

Res(ok) == IF ok THEN "ok" ELSE "fail"

\* The call in progress returns e.
Return(e) ==
  /\ ret' = e.msg
  /\ hist' = Append(hist, [op |-> op, ok |-> e = NilErr])
  /\ op' = "idle"
  /\ pc' = "idle"

\* A stage that goes on without its m.infof.
Proceed_Silent(evs, msg, next) ==
  /\ UNCHANGED <<infoChan, errChan>>
  /\ log' = log \o evs
  /\ pc' = next
  /\ UNCHANGED <<op, ret, hist>>

\* A stage that gives up with an error when its notification was dropped.
Proceed_FailOnDrop(evs, msg, next) ==
  LET s == infof(infoChan, msg)
  IN /\ s.ready
     /\ infoChan' = s.ch
     /\ errChan' = errChan
     /\ log' = log \o evs \o <<Ev("info", msg, "-")>>
     /\ IF s.r = "dropped"
        THEN Return([msg |-> "notification dropped", errno |-> "drop"])
        ELSE /\ pc' = next
             /\ UNCHANGED <<op, ret, hist>>

\* The call did the operations evs, then m.infof(msg), and goes on at next.
Proceed(evs, msg, next) ==
  LET s == infof(infoChan, msg)
  IN /\ s.ready
     /\ infoChan' = s.ch
     /\ errChan' = errChan
     /\ log' = log \o evs \o <<Ev("info", msg, "-")>>
     /\ pc' = next
     /\ UNCHANGED <<op, ret, hist>>

\* The call did the operations evs, then m.infof(msg), then return nil.
Finish(evs, msg) ==
  LET s == infof(infoChan, msg)
  IN /\ s.ready
     /\ infoChan' = s.ch
     /\ errChan' = errChan
     /\ log' = log \o evs \o <<Ev("info", msg, "-")>>
     /\ Return(NilErr)

\* Manager.fail without the report: the error is only returned.
fail_Silent(evs, e) ==
  /\ UNCHANGED <<infoChan, errChan>>
  /\ log' = log \o evs
  /\ Return(e)

\* Manager.fail that reports the error twice before it returns it.
fail_Twice(evs, e) ==
  LET s1 == error(errChan, e)
      s2 == error(s1.ch, e)
  IN /\ s1.ready /\ s2.ready
     /\ errChan' = s2.ch
     /\ infoChan' = infoChan
     /\ log' = log \o evs \o <<Ev("err", e.msg, "-"), Ev("err", e.msg, "-")>>
     /\ Return(e)

\* The call did the operations evs, the last of which failed with e:
\* return m.fail(e), that is m.error(e) and then return e.
fail(evs, e) ==
  LET s == error(errChan, e)
  IN /\ s.ready
     /\ errChan' = s.ch
     /\ infoChan' = infoChan
     /\ log' = log \o evs \o <<Ev("err", e.msg, "-")>>
     /\ Return(e)

\* The call did the operations evs, which call for no notification, and goes
\* on at next.
Continue(evs, next) ==
  /\ UNCHANGED <<infoChan, errChan>>
  /\ log' = log \o evs
  /\ pc' = next
  /\ UNCHANGED <<op, ret, hist>>

(***************************************************************************)
(* Install.                                                                *)
(***************************************************************************)
\* The caller calls Install: the announcement, m.infof("Installing service: %s").
CallInstall ==
  /\ op = "idle"
  /\ Len(hist) < MaxCalls
  /\ LET msg == "Installing service: " \o cfg.ServiceName
         s == infof(infoChan, msg)
     IN /\ s.ready
        /\ infoChan' = s.ch
        /\ log' = <<Ev("info", msg, "-")>>
  /\ op' = "Install"
  /\ pc' = "I_user"
  /\ ret' = Running
  /\ UNCHANGED <<build, peer, senders, cfg, errChan, users, groups, fs, svc, pending, idx, hist>>

\* ensureServiceUser with the probe's answer ignored: useradd is always issued.
InstallEnsureUser_AlwaysCreate ==
  /\ op = "Install" /\ pc = "I_user"
  /\ \E ok \in BOOLEAN :
       LET evs == <<Ev("probe", IdCmd(cfg), Res(cfg.User \in users)),
                    Ev("cmd", UseraddCmd(cfg), Res(ok))>>
       IN IF ok
          THEN /\ Continue(evs, "I_group")
               /\ users' = users \cup {cfg.User}
          ELSE /\ fail(evs, Wrap("failed to create user " \o cfg.User,
                                 CmdErr(UseraddCmd(cfg))))
               /\ users' = users
  /\ UNCHANGED <<build, peer, senders, cfg, groups, fs, svc, pending, idx>>

\* ensureServiceUser, the user: the probe, and useradd if the probe fails.
InstallEnsureUser ==
  /\ op = "Install" /\ pc = "I_user"
  /\ IF cfg.User \in users
     THEN /\ Continue(<<Ev("probe", IdCmd(cfg), "ok")>>, "I_group")
          /\ users' = users
     ELSE \E ok \in BOOLEAN :
            LET evs == <<Ev("probe", IdCmd(cfg), "fail"), Ev("cmd", UseraddCmd(cfg), Res(ok))>>
            IN IF ok
               THEN /\ Continue(evs, "I_group")
                    /\ users' = users \cup {cfg.User}
               ELSE /\ fail(evs, Wrap("failed to create user " \o cfg.User,
                                      CmdErr(UseraddCmd(cfg))))
                    /\ users' = users
  /\ UNCHANGED <<build, peer, senders, cfg, groups, fs, svc, pending, idx>>

\* Install without its check of LogDir: the log files' stages always run.
AfterEnsure_IgnoreLogDir(c) == "I_rsyslog"

\* Where Install goes on after ensureServiceUser.
AfterEnsure(c) == IF c.LogDir # "" THEN "I_rsyslog" ELSE "I_unit"

\* ensureServiceUser that returns the error of the getent probe.
InstallEnsureGroup_ProbeFatal ==
  /\ op = "Install" /\ pc = "I_group"
  /\ IF cfg.Group \in groups
     THEN /\ Proceed(<<Ev("probe", GetentCmd(cfg), "ok")>>,
                     "Service user and group ensured", AfterEnsure(cfg))
          /\ groups' = groups
     ELSE /\ fail(<<Ev("probe", GetentCmd(cfg), "fail")>>, CmdErr(GetentCmd(cfg)))
          /\ groups' = groups
  /\ UNCHANGED <<build, peer, senders, cfg, users, fs, svc, pending, idx>>

\* ensureServiceUser, the group: the probe, and groupadd if the probe fails.
InstallEnsureGroup ==
  /\ op = "Install" /\ pc = "I_group"
  /\ IF cfg.Group \in groups
     THEN /\ Proceed(<<Ev("probe", GetentCmd(cfg), "ok")>>,
                     "Service user and group ensured", AfterEnsure(cfg))
          /\ groups' = groups
     ELSE \E ok \in BOOLEAN :
            LET evs == <<Ev("probe", GetentCmd(cfg), "fail"), Ev("cmd", GroupaddCmd(cfg), Res(ok))>>
            IN IF ok
               THEN /\ Proceed(evs, "Service user and group ensured", AfterEnsure(cfg))
                    /\ groups' = groups \cup {cfg.Group}
               ELSE /\ fail(evs, Wrap("failed to create group " \o cfg.Group,
                                      CmdErr(GroupaddCmd(cfg))))
                    /\ groups' = groups
  /\ UNCHANGED <<build, peer, senders, cfg, users, fs, svc, pending, idx>>

\* Where Install goes on after writeRsyslogConf.
AfterRsyslog(c) == IF c.MakeLogrotate THEN "I_logrotate" ELSE "I_unit"

\* The range of writeLogrotateConfs without the check of MakeLogrotate.
LogrotateRange_IgnoreFlag(c) == MapKeys(c.Streams)

\* The keys the range of writeLogrotateConfs has to visit: none when its guard
\* returns at once.
LogrotateRange(c) ==
  IF ~c.MakeLogrotate \/ c.Streams.isNil THEN {} ELSE MapKeys(c.Streams)

\* writeRsyslogConf: nothing to do without streams, else one WriteFile whose
\* text lists the streams in the order the range visited them.
InstallRsyslog ==
  /\ op = "Install" /\ pc = "I_rsyslog"
  /\ IF MapLen(cfg.Streams) = 0
     THEN /\ Proceed(<<>>, "Rsyslog configuration written", AfterRsyslog(cfg))
          /\ fs' = fs
          /\ pending' = LogrotateRange(cfg)
     ELSE \E order \in Orders(MapKeys(cfg.Streams)), ok \in BOOLEAN :
            LET evs == <<Ev("write", rsyslogPath(cfg), Res(ok))>>
            IN IF ok
               THEN /\ Proceed(evs, "Rsyslog configuration written", AfterRsyslog(cfg))
                    /\ fs' = FsWrite(rsyslogPath(cfg), rsyslogText(cfg, order))
                    /\ pending' = LogrotateRange(cfg)
               ELSE /\ fail(evs, WriteErr(rsyslogPath(cfg)))
                    /\ fs' = fs
                    /\ pending' = pending
  /\ UNCHANGED <<build, peer, senders, cfg, users, groups, svc, idx>>

\* writeLogrotateConfs: one iteration of the range over c.Streams (the order
\* of a map range is not fixed), or the end of the range.
InstallLogrotate ==
  /\ op = "Install" /\ pc = "I_logrotate"
  /\ IF pending = {}
     THEN /\ Proceed(<<>>, "Logrotate configurations written", "I_unit")
          /\ UNCHANGED <<fs, pending>>
     ELSE \E streamName \in pending, ok \in BOOLEAN :
            LET configPath == logrotatePath(cfg, streamName)
                evs == <<Ev("write", configPath, Res(ok))>>
            IN IF ok
               THEN /\ Continue(evs, "I_logrotate")
                    /\ fs' = FsWrite(configPath, logrotateConfig(cfg, streamName))
                    /\ pending' = pending \ {streamName}
               ELSE /\ fail(evs, Wrap("failed to write logrotate config for stream "
                                        \o streamName, WriteErr(configPath)))
                    /\ fs' = fs
                    /\ pending' = {}
  /\ UNCHANGED <<build, peer, senders, cfg, users, groups, svc, idx>>

\* writeSystemdUnit with its error dropped: Install goes on to daemon-reload.
InstallUnit_IgnoreError ==
  /\ op = "Install" /\ pc = "I_unit"
  /\ \E ok \in BOOLEAN :
       /\ Proceed(<<Ev("write", cfg.SystemdFile, Res(ok))>>, "Systemd unit file written", "I_reload")
       /\ fs' = IF ok THEN FsWrite(cfg.SystemdFile, unitText(cfg)) ELSE fs
  /\ UNCHANGED <<build, peer, senders, cfg, users, groups, svc, pending, idx>>

\* writeSystemdUnit.
InstallUnit ==
  /\ op = "Install" /\ pc = "I_unit"
  /\ \E ok \in BOOLEAN :
       LET evs == <<Ev("write", cfg.SystemdFile, Res(ok))>>
       IN IF ok
          THEN /\ Proceed(evs, "Systemd unit file written", "I_reload")
               /\ fs' = FsWrite(cfg.SystemdFile, unitText(cfg))
          ELSE /\ fail(evs, WriteErr(cfg.SystemdFile))
               /\ fs' = fs
  /\ UNCHANGED <<build, peer, senders, cfg, users, groups, svc, pending, idx>>

\* InstallReload with the error of daemon-reload ignored: Install goes on.
InstallReload_IgnoreError ==
  /\ op = "Install" /\ pc = "I_reload"
  /\ \E ok \in BOOLEAN :
       Proceed(<<Ev("cmd", ReloadCmd, Res(ok))>>,
               "Systemd daemon configuration reloaded", "I_enable")
  /\ UNCHANGED <<build, peer, senders, cfg, users, groups, fs, svc, pending, idx>>

\* systemctl daemon-reload.
InstallReload ==
  /\ op = "Install" /\ pc = "I_reload"
  /\ \E ok \in BOOLEAN :
       LET evs == <<Ev("cmd", ReloadCmd, Res(ok))>>
       IN IF ok
          THEN Proceed(evs, "Systemd daemon configuration reloaded", "I_enable")
          ELSE fail(evs, CmdErr(ReloadCmd))
  /\ UNCHANGED <<build, peer, senders, cfg, users, groups, fs, svc, pending, idx>>

\* enable --now whose failure makes Install take back the unit file.
InstallEnable_Rollback ==
  /\ op = "Install" /\ pc = "I_enable"
  /\ \E ok \in BOOLEAN :
       LET evs == <<Ev("cmd", EnableCmd(cfg), Res(ok))>>
       IN IF ok
          THEN /\ Finish(evs, "Service enabled and started successfully")
               /\ svc' = [enabled |-> TRUE, active |-> TRUE]
               /\ fs' = fs
          ELSE /\ fail(evs, CmdErr(EnableCmd(cfg)))
               /\ svc' = svc
               /\ fs' = FsRemove(cfg.SystemdFile)
  /\ UNCHANGED <<build, peer, senders, cfg, users, groups, pending, idx>>

\* systemctl enable --now <ServiceName>, then return nil.
InstallEnable ==
  /\ op = "Install" /\ pc = "I_enable"
  /\ \E ok \in BOOLEAN :
       LET evs == <<Ev("cmd", EnableCmd(cfg), Res(ok))>>
       IN IF ok
          THEN /\ Finish(evs, "Service enabled and started successfully")
               /\ svc' = [enabled |-> TRUE, active |-> TRUE]
          ELSE /\ fail(evs, CmdErr(EnableCmd(cfg)))
               /\ svc' = svc
  /\ UNCHANGED <<build, peer, senders, cfg, users, groups, fs, pending, idx>>

Install ==
  \/ InstallEnsureUser
  \/ InstallEnsureGroup
  \/ InstallRsyslog
  \/ InstallLogrotate
  \/ InstallUnit
  \/ InstallReload
  \/ InstallEnable

(***************************************************************************)
(* Uninstall.                                                              *)
(***************************************************************************)
filesToRemove(c) == <<c.SystemdFile, rsyslogPath(c), logrotateCorePath(c) \o "-*">>

\* The caller calls Uninstall: the announcement.
CallUninstall ==
  /\ op = "idle"
  /\ Len(hist) < MaxCalls
  /\ LET msg == "Uninstalling service: " \o cfg.ServiceName
         s == infof(infoChan, msg)
     IN /\ s.ready
        /\ infoChan' = s.ch
        /\ log' = <<Ev("info", msg, "-")>>
  /\ op' = "Uninstall"
  /\ pc' = "U_disable"
  /\ ret' = Running
  /\ UNCHANGED <<build, peer, senders, cfg, errChan, users, groups, fs, svc, pending, idx, hist>>

\* UninstallDisable with the error of disable returned through m.fail.
UninstallDisable_Fatal ==
  /\ op = "Uninstall" /\ pc = "U_disable"
  /\ \E ok \in BOOLEAN :
       LET evs == <<Ev("cmd", DisableCmd(cfg), Res(ok))>>
       IN IF ok
          THEN /\ Continue(evs, "U_stop")
               /\ svc' = [svc EXCEPT !.enabled = FALSE]
          ELSE /\ fail(evs, CmdErr(DisableCmd(cfg)))
               /\ svc' = svc
  /\ UNCHANGED <<build, peer, senders, cfg, users, groups, fs, pending, idx>>

\* _ = execCommand("systemctl", "disable", ...): the result is discarded.
UninstallDisable ==
  /\ op = "Uninstall" /\ pc = "U_disable"
  /\ \E ok \in BOOLEAN :
       /\ Continue(<<Ev("cmd", DisableCmd(cfg), Res(ok))>>, "U_stop")
       /\ svc' = IF ok THEN [svc EXCEPT !.enabled = FALSE] ELSE svc
  /\ UNCHANGED <<build, peer, senders, cfg, users, groups, fs, pending, idx>>

\* UninstallStop with the error of stop returned through m.fail.
UninstallStop_Fatal ==
  /\ op = "Uninstall" /\ pc = "U_stop"
  /\ \E ok \in BOOLEAN :
       LET evs == <<Ev("cmd", StopCmd(cfg), Res(ok))>>
       IN IF ok
          THEN /\ Continue(evs, "U_remove")
               /\ svc' = [svc EXCEPT !.active = FALSE]
          ELSE /\ fail(evs, CmdErr(StopCmd(cfg)))
               /\ svc' = svc
  /\ idx' = 1
  /\ UNCHANGED <<build, peer, senders, cfg, users, groups, fs, pending>>

\* _ = execCommand("systemctl", "stop", ...): the result is discarded.
UninstallStop ==
  /\ op = "Uninstall" /\ pc = "U_stop"
  /\ \E ok \in BOOLEAN :
       /\ Continue(<<Ev("cmd", StopCmd(cfg), Res(ok))>>, "U_remove")
       /\ svc' = IF ok THEN [svc EXCEPT !.active = FALSE] ELSE svc
  /\ idx' = 1
  /\ UNCHANGED <<build, peer, senders, cfg, users, groups, fs, pending>>

\* The outcomes os.Remove(path) can have: the file is removed, it does not
\* exist, or the removal is refused.
RemoveOutcomes(path) ==
  (IF path \in DOMAIN fs THEN {"ok"} ELSE {"notexist"}) \cup {"fail"}

\* The error os.Remove(path) returns with outcome r.
RemoveResult(path, r) ==
  CASE r = "ok" -> NilErr
    [] r = "notexist" -> NotExistErr(path)
    [] r = "fail" -> RemoveErr(path)

\* Where Uninstall goes on after the removal at index i.
AfterRemove(c, i) == IF i < Len(filesToRemove(c)) THEN "U_remove" ELSE "U_reload"

\* UninstallRemove with a break after a refused removal: the loop ends there.
UninstallRemove_Break ==
  /\ op = "Uninstall" /\ pc = "U_remove"
  /\ LET path == filesToRemove(cfg)[idx] IN
     \E r \in RemoveOutcomes(path) :
       LET e == RemoveResult(path, r)
           evs == <<Ev("remove", path, r)>>
       IN /\ fs' = IF r = "ok" THEN FsRemove(path) ELSE fs
          /\ IF e # NilErr /\ ~IsNotExist(e)
             THEN LET s == error(errChan, e)
                  IN /\ s.ready
                     /\ errChan' = s.ch
                     /\ infoChan' = infoChan
                     /\ log' = log \o evs \o <<Ev("err", e.msg, "-")>>
                     /\ pc' = "U_reload"
             ELSE LET s == infof(infoChan, "Removed: " \o path)
                  IN /\ s.ready
                     /\ infoChan' = s.ch
                     /\ errChan' = errChan
                     /\ log' = log \o evs \o <<Ev("info", "Removed: " \o path, "-")>>
                     /\ pc' = AfterRemove(cfg, idx)
  /\ idx' = idx + 1
  /\ UNCHANGED <<build, peer, senders, cfg, users, groups, svc, op, pending, ret, hist>>

\* UninstallRemove with every error of os.Remove treated like not-found: a
\* refused removal is not reported.
UninstallRemove_Swallow ==
  /\ op = "Uninstall" /\ pc = "U_remove"
  /\ LET path == filesToRemove(cfg)[idx] IN
     \E r \in RemoveOutcomes(path) :
       LET evs == <<Ev("remove", path, r)>>
           s == infof(infoChan, "Removed: " \o path)
       IN /\ fs' = IF r = "ok" THEN FsRemove(path) ELSE fs
          /\ s.ready
          /\ infoChan' = s.ch
          /\ errChan' = errChan
          /\ log' = log \o evs \o <<Ev("info", "Removed: " \o path, "-")>>
  /\ idx' = idx + 1
  /\ pc' = AfterRemove(cfg, idx)
  /\ UNCHANGED <<build, peer, senders, cfg, users, groups, svc, op, pending, ret, hist>>

\* One iteration of the loop over filesToRemove: os.Remove(path), then
\* m.error(err) for an error that is not IsNotExist, else
\* m.infof("Removed: %s", path).
UninstallRemove ==
  /\ op = "Uninstall" /\ pc = "U_remove"
  /\ LET path == filesToRemove(cfg)[idx] IN
     \E r \in RemoveOutcomes(path) :
       LET e == RemoveResult(path, r)
           evs == <<Ev("remove", path, r)>>
       IN /\ fs' = IF r = "ok" THEN FsRemove(path) ELSE fs
          /\ IF e # NilErr /\ ~IsNotExist(e)
             THEN LET s == error(errChan, e)
                  IN /\ s.ready
                     /\ errChan' = s.ch
                     /\ infoChan' = infoChan
                     /\ log' = log \o evs \o <<Ev("err", e.msg, "-")>>
             ELSE LET s == infof(infoChan, "Removed: " \o path)
                  IN /\ s.ready
                     /\ infoChan' = s.ch
                     /\ errChan' = errChan
                     /\ log' = log \o evs \o <<Ev("info", "Removed: " \o path, "-")>>
  /\ idx' = idx + 1
  /\ pc' = AfterRemove(cfg, idx)
  /\ UNCHANGED <<build, peer, senders, cfg, users, groups, svc, op, pending, ret, hist>>

\* The last step of Uninstall with the service user deleted as well.
UninstallReload_Userdel ==
  /\ op = "Uninstall" /\ pc = "U_reload"
  /\ \E ok \in BOOLEAN :
       LET evs == <<Ev("cmd", ReloadCmd, Res(ok))>>
       IN IF ok
          THEN Finish(evs, "Systemd daemon configuration reloaded")
          ELSE fail(evs, CmdErr(ReloadCmd))
  /\ users' = users \ {cfg.User}
  /\ UNCHANGED <<build, peer, senders, cfg, groups, fs, svc, pending, idx>>

\* systemctl daemon-reload, the only step of Uninstall whose error is returned.
UninstallReload ==
  /\ op = "Uninstall" /\ pc = "U_reload"
  /\ \E ok \in BOOLEAN :
       LET evs == <<Ev("cmd", ReloadCmd, Res(ok))>>
       IN IF ok
          THEN Finish(evs, "Systemd daemon configuration reloaded")
          ELSE fail(evs, CmdErr(ReloadCmd))
  /\ UNCHANGED <<build, peer, senders, cfg, users, groups, fs, svc, pending, idx>>

Uninstall ==
  \/ UninstallDisable
  \/ UninstallStop
  \/ UninstallRemove
  \/ UninstallReload

(***************************************************************************)
(* Specifications.                                                         *)
(***************************************************************************)
\* A step of the call in progress.
ManagerStep == Install \/ Uninstall

Next ==
  \/ CallInstall
  \/ CallUninstall
  \/ ManagerStep
  \/ ObserveInfo
  \/ ObserveErr

Spec == Init /\ [][Next]_vars

\* The calls under the scheduling the code runs with: a call in progress runs
\* on its caller's thread and is not stopped from outside, and every command
\* and file operation it issues returns, so its next step is eventually
\* taken.  Nothing is assumed of the caller or of the observers.
FairNext ==
  \/ Len(hist) < MaxFairCalls /\ CallInstall
  \/ Len(hist) < MaxFairCalls /\ CallUninstall
  \/ ManagerStep
  \/ ObserveInfo
  \/ ObserveErr

FairSpec == Init /\ [][FairNext]_vars /\ WF_vars(ManagerStep)

(***************************************************************************)
(* Vocabulary of the properties.                                           *)
(***************************************************************************)
\* The call the log belongs to: the one in progress, else the last one.
CurOp == IF op # "idle" THEN op
         ELSE IF hist = <<>> THEN "none" ELSE hist[Len(hist)].op

\* The call o has returned and no other call has started since.
Returned(o) == op = "idle" /\ hist # <<>> /\ hist[Len(hist)].op = o

IsOp(e) == e.k \in {"probe", "cmd", "write", "remove"}
\* The commands and file operations of the log, in the order issued.
Ops(l) == SelectSeq(l, IsOp)

\* An operation whose failure is an error (a failing probe is an answer).
Failed(e) == e.k \in {"cmd", "write", "remove"} /\ e.r = "fail"

\* The stage of Install an operation belongs to (0: none).
InstallStage(e) ==
  CASE e.k \in {"probe", "cmd"} /\ e.a \in {IdCmd(cfg), UseraddCmd(cfg)} -> 1
    [] e.k \in {"probe", "cmd"} /\ e.a \in {GetentCmd(cfg), GroupaddCmd(cfg)} -> 2
    [] e.k = "write" /\ e.a = rsyslogPath(cfg) -> 3
    [] e.k = "write" /\ e.a \in {logrotatePath(cfg, sn) : sn \in MapKeys(cfg.Streams)} -> 4
    [] e.k = "write" /\ e.a = cfg.SystemdFile -> 5
    [] e.k = "cmd" /\ e.a = ReloadCmd -> 6
    [] e.k = "cmd" /\ e.a = EnableCmd(cfg) -> 7
    [] OTHER -> 0

\* The paths of the rotation files an Install of the Manager's config writes.
RotationPaths == {logrotatePath(cfg, sn) : sn \in MapKeys(cfg.Streams)}

\* No os.Remove of the log was refused.
NoRemovalError == \A i \in 1..Len(log) : ~(log[i].k = "remove" /\ log[i].r = "fail")

(***************************************************************************)
(* Properties of the Install and Uninstall sequences.                      *)
(***************************************************************************)

\* C1: the operations of an Install call are issued in the order of its
\* stages (user, group, relay config, rotation files, unit file,
\* daemon-reload, enable --now), each stage at most once; an operation that
\* fails is the last operation the call issues, and the call then returns
\* the error of that operation, which it also hands to m.error.
C1_InstallStageOrder ==
  CurOp = "Install" =>
    LET ops == Ops(log)
        n == Len(ops)
    IN /\ \A i \in 1..n : InstallStage(ops[i]) > 0
       /\ \A i, j \in 1..n : i < j => InstallStage(ops[i]) <= InstallStage(ops[j])
       /\ \A i, j \in 1..n :
            i < j /\ InstallStage(ops[i]) = InstallStage(ops[j]) =>
              \/ InstallStage(ops[i]) = 4 /\ ops[i].a # ops[j].a
              \/ /\ InstallStage(ops[i]) \in {1, 2}
                 /\ j = i + 1
                 /\ ops[i] = Ev("probe", ops[i].a, "fail")
                 /\ ops[j].k = "cmd"
       /\ \A i \in 1..n : Failed(ops[i]) =>
            /\ i = n
            /\ op = "idle"
            /\ ret # NilErr.msg
            /\ log[Len(log)] = Ev("err", ret, "-")
            /\ log[Len(log) - 1] = ops[n]
       /\ (op = "idle" /\ ret # NilErr.msg) => (n > 0 /\ Failed(ops[n]))

\* C1 witness: an Install that wrote its files and failed at daemon-reload.
C1_Witness ==
  /\ Returned("Install")
  /\ ret = CmdErr(ReloadCmd).msg
  /\ \E i \in 1..Len(log) : log[i] = Ev("write", cfg.SystemdFile, "ok")
  /\ \E i \in 1..Len(log) : log[i].k = "write" /\ InstallStage(log[i]) = 4

\* C2: Uninstall removes the rotation file of every stream, at the path
\* Install writes it to: when it has returned without a refused removal, none
\* of the rotation files exists.
C2_UninstallRemovesRotationFiles ==
  (Returned("Uninstall") /\ NoRemovalError) => RotationPaths \cap DOMAIN fs = {}

\* The paths of the files an Install of the Manager's config writes.
InstallPaths == {cfg.SystemdFile, rsyslogPath(cfg)} \cup RotationPaths

\* C3: after an Install that returned nil and an Uninstall that followed it
\* with no refused removal, none of the files Install wrote remains.
C3_InstallUninstallRoundTrip ==
  ( /\ Returned("Uninstall")
    /\ NoRemovalError
    /\ Len(hist) >= 2
    /\ hist[Len(hist) - 1] = [op |-> "Install", ok |-> TRUE] ) =>
    InstallPaths \cap DOMAIN fs = {}

(***************************************************************************)
(* Properties of the notification channels.                                *)
(***************************************************************************)
\* A send on ch would have to wait: no receiver is waiting and the buffer
\* (if any) is full.
WouldBlock(ch) == ~ch.nil /\ ~ch.rdy /\ Len(ch.buf) >= ch.cap

\* The step made a notification of kind k ("info" or "err") its last operation.
Notified(k) == log' # log /\ log' # <<>> /\ log'[Len(log')].k = k

\* The messages and errors the calls send.
SomeMessages == {"Removed: " \o cfg.SystemdFile, "Systemd daemon configuration reloaded"}
SomeErrors == {CmdErr(ReloadCmd), WriteErr(cfg.SystemdFile)}

\* C4: a notification never blocks its caller.  In every reachable state of
\* the channels m.infof and m.error complete, so every stage of a call in
\* progress can be taken and a call can be started; a send that would block
\* (unbuffered without a waiting receiver, or buffer full) leaves the channel
\* as it was, the message being dropped, and so does a send with no channel
\* configured.
C4_NotifyNeverBlocks ==
  /\ [](/\ \A msg \in SomeMessages : infof(infoChan, msg).ready
        /\ \A e \in SomeErrors : error(errChan, e).ready
        /\ op # "idle" => ENABLED ManagerStep
        /\ (op = "idle" /\ Len(hist) < MaxCalls) => (ENABLED CallInstall /\ ENABLED CallUninstall))
  /\ [][/\ (Notified("info") /\ (infoChan.nil \/ WouldBlock(infoChan))) => infoChan' = infoChan
        /\ (Notified("err") /\ (errChan.nil \/ WouldBlock(errChan))) => errChan' = errChan]_vars

\* C4 witness: the first call, an Install, has sent its second message while
\* its first one still filled the buffer of the info channel, and with an
\* unbuffered error channel no receiver waits on.
C4_Witness ==
  /\ hist = <<>>
  /\ op = "Install"
  /\ infoChan.cap = 1
  /\ infoChan.buf = <<"Installing service: " \o cfg.ServiceName>>
  /\ log[Len(log)] = Ev("info", "Service user and group ensured", "-")
  /\ ~errChan.nil /\ errChan.cap = 0 /\ ~errChan.rdy

\* C5: every Install call and every Uninstall call returns, whatever the
\* observers do.
C5_CallsReturn == (op # "idle") ~> (op = "idle")

\* C5 witness: a call has returned while both channels are configured, not
\* drained and unable to take a message.
C5_Witness ==
  /\ op = "idle" /\ hist # <<>>
  /\ WouldBlock(infoChan)
  /\ WouldBlock(errChan)
  /\ Len(log) > 2

(***************************************************************************)
(* Properties of the error handling.                                       *)
(***************************************************************************)
\* The step in which Install returns an error.
InstallFails == op = "Install" /\ op' = "idle" /\ ret' # NilErr.msg

\* The step put the message msg into the channel: a waiting receiver took it,
\* or it was appended to the buffer.
Delivered(ch, chAfter, msg) ==
  \/ ch.rdy /\ chAfter = [ch EXCEPT !.rdy = FALSE]
  \/ ~ch.rdy /\ chAfter = [ch EXCEPT !.buf = Append(@, msg)]

\* C6 as stated: whenever Install returns an error and an error channel is
\* configured, that error is delivered on the error channel before Install
\* returns.
C6_InstallErrorDelivered ==
  [][(InstallFails /\ ~errChan.nil) => Delivered(errChan, errChan', ret')]_vars

\* C6 as amended: whenever Install returns an error and an error channel is
\* configured, handing that error to the error channel is the last thing
\* Install does before it returns; the error is delivered if a receiver is
\* waiting or the buffer has room, and dropped otherwise.
C6_InstallErrorOffered ==
  [][(InstallFails /\ ~errChan.nil) =>
       /\ log'[Len(log')] = Ev("err", ret', "-")
       /\ IF WouldBlock(errChan)
          THEN errChan' = errChan
          ELSE Delivered(errChan, errChan', ret')]_vars

\* C6 witness: Install has returned an error that sits in the buffer of the
\* error channel.
C6_Witness ==
  /\ Returned("Install")
  /\ ret # NilErr.msg
  /\ ~errChan.nil
  /\ errChan.buf = <<ret>>
  /\ log[Len(log)] = Ev("err", ret, "-")

\* C7: Uninstall returns an error if and only if its daemon-reload, the last
\* operation it issues, fails, and the error is that of daemon-reload; the
\* outcomes of disable, of stop and of the removals do not show in it.
C7_UninstallReturnsReloadResult ==
  Returned("Uninstall") =>
    LET ops == Ops(log)
        n == Len(ops)
    IN /\ n > 0
       /\ ops[n].k = "cmd" /\ ops[n].a = ReloadCmd
       /\ (ret # NilErr.msg) <=> (ops[n].r = "fail")
       /\ ret \in {NilErr.msg, CmdErr(ReloadCmd).msg}

\* C7 witness: Uninstall returned nil although disable, stop and a removal failed.
C7_Witness ==
  /\ Returned("Uninstall")
  /\ ret = NilErr.msg
  /\ \E i \in 1..Len(log) : log[i] = Ev("cmd", DisableCmd(cfg), "fail")
  /\ \E i \in 1..Len(log) : log[i] = Ev("cmd", StopCmd(cfg), "fail")
  /\ \E i \in 1..Len(log) : log[i].k = "remove" /\ log[i].r = "fail"

IsRemove(e) == e.k = "remove"

\* The notification that follows os.Remove of path with outcome r.
RemovalNote(path, r) ==
  IF r = "fail" THEN Ev("err", RemoveErr(path).msg, "-")
  ELSE Ev("info", "Removed: " \o path, "-")

\* C8: once the removal loop of Uninstall is over, os.Remove has been called
\* on every entry of filesToRemove, in order, whatever the earlier removals
\* returned; a missing file is followed by the 'Removed' message like a
\* removed one, and a refused removal by m.error with its error.
C8_AllRemovalsAttempted ==
  /\ (CurOp = "Uninstall" /\ pc \in {"U_reload", "idle"}) =>
       LET rm == SelectSeq(log, IsRemove)
       IN [i \in 1..Len(rm) |-> rm[i].a] = filesToRemove(cfg)
  /\ CurOp = "Uninstall" =>
       \A i \in 1..Len(log) : log[i].k = "remove" =>
         /\ i < Len(log)
         /\ log[i + 1] = RemovalNote(log[i].a, log[i].r)

\* C8 witness: the first removal was refused, and the second one then removed
\* its file.
C8_Witness ==
  /\ Returned("Uninstall")
  /\ \E i \in 1..Len(log) : log[i] = Ev("remove", cfg.SystemdFile, "fail")
  /\ \E i \in 1..Len(log) : log[i] = Ev("remove", rsyslogPath(cfg), "ok")
  /\ \E i \in 1..Len(log) : log[i].k = "remove" /\ log[i].a = filesToRemove(cfg)[3]

\* C9: the operations of Uninstall are disable, stop, the removals and
\* daemon-reload, in that order, whatever disable and stop returned:
\* daemon-reload is issued once, after every removal, as the last operation.
C9_UninstallOrder ==
  CurOp = "Uninstall" =>
    LET ops == Ops(log)
        n == Len(ops)
        nrm == Len(filesToRemove(cfg))
    IN /\ n <= nrm + 3
       /\ n >= 1 => (ops[1].k = "cmd" /\ ops[1].a = DisableCmd(cfg))
       /\ n >= 2 => (ops[2].k = "cmd" /\ ops[2].a = StopCmd(cfg))
       /\ \A i \in 3..n : i <= nrm + 2 => ops[i].k = "remove"
       /\ n = nrm + 3 => (ops[n].k = "cmd" /\ ops[n].a = ReloadCmd)
       /\ op = "idle" <=> n = nrm + 3

\* C9 witness: Uninstall returned after a failed disable and a failed stop.
C9_Witness ==
  /\ Returned("Uninstall")
  /\ log[2] = Ev("cmd", DisableCmd(cfg), "fail")
  /\ log[3] = Ev("cmd", StopCmd(cfg), "fail")
  /\ Len(Ops(log)) = 6

\* The message of the error a failed operation returns.
ErrOf(e) == IF e.k = "remove" THEN RemoveErr(e.a).msg ELSE CmdErr(e.a).msg

\* The operations of Uninstall whose failure is not returned.
NonFatal(e) == Failed(e) /\ e.a # ReloadCmd

\* C10 as stated: every non-fatal error of Uninstall (a failed disable, a
\* failed stop, a refused removal) is handed to the error channel, and is not
\* returned.
C10_NonFatalErrorsReported ==
  CurOp = "Uninstall" =>
    \A i \in 1..Len(log) : NonFatal(log[i]) =>
      /\ i < Len(log)
      /\ log[i + 1] = Ev("err", ErrOf(log[i]), "-")
      /\ ret # ErrOf(log[i])

\* C10 as amended: a refused removal is handed to the error channel and is
\* not returned; a failed disable or stop is discarded, neither handed to the
\* error channel nor returned.
C10_RemovalErrorsReported ==
  CurOp = "Uninstall" =>
    \A i \in 1..Len(log) : NonFatal(log[i]) =>
      /\ ret # ErrOf(log[i])
      /\ IF log[i].k = "remove"
         THEN i < Len(log) /\ log[i + 1] = Ev("err", ErrOf(log[i]), "-")
         ELSE \A j \in 1..Len(log) : log[j] # Ev("err", ErrOf(log[i]), "-")

\* C10 witness: Uninstall returned nil after a failed stop and a refused
\* removal, with a configured error channel.
C10_Witness ==
  /\ Returned("Uninstall")
  /\ ret = NilErr.msg
  /\ ~errChan.nil
  /\ \E i \in 1..Len(log) : log[i] = Ev("cmd", StopCmd(cfg), "fail")
  /\ \E i \in 1..Len(log) : log[i] = Ev("err", RemoveErr(rsyslogPath(cfg)).msg, "-")

(***************************************************************************)
(* C11                                                                     *)
(***************************************************************************)
\* The operation of the log at position i is the probe or the command a with
\* the outcome r.
OpIs(o, i, k, a, r) == i \in 1..Len(o) /\ o[i].k = k /\ o[i].a = a /\ o[i].r = r

\* In the operations o, the creation command create is issued exactly after a
\* failed probe: a failed probe is followed at once by the creation, a creation
\* is preceded at once by a failed probe.
CreatedIffProbeFails(o, probe, create) ==
  \A i \in 1..Len(o) :
    /\ (o[i].k = "probe" /\ o[i].a = probe /\ o[i].r = "fail")
         => (i < Len(o) /\ o[i + 1].k = "cmd" /\ o[i + 1].a = create)
    /\ (o[i].k = "cmd" /\ o[i].a = create)
         => OpIs(o, i - 1, "probe", probe, "fail")
    /\ (o[i].k = "probe" /\ o[i].a = probe /\ o[i].r = "ok")
         => \A j \in 1..Len(o) : ~(o[j].k = "cmd" /\ o[j].a = create)

\* C11: during Install, useradd is issued exactly when the probe of the user
\* fails and groupadd exactly when the probe of the group fails; a probe that
\* finds the user or group issues no creation; the group is probed only after
\* the user step has succeeded (the user was found, or useradd succeeded).
C11_CreateIffProbeFails ==
  op = "Install" \/ Returned("Install") =>
    LET o == Ops(log)
    IN /\ CreatedIffProbeFails(o, IdCmd(cfg), UseraddCmd(cfg))
       /\ CreatedIffProbeFails(o, GetentCmd(cfg), GroupaddCmd(cfg))
       /\ \A i \in 1..Len(o) :
            (o[i].k = "probe" /\ o[i].a = GetentCmd(cfg)) =>
              \/ OpIs(o, i - 1, "probe", IdCmd(cfg), "ok")
              \/ OpIs(o, i - 1, "cmd", UseraddCmd(cfg), "ok")

\* An Install that found the user, did not find the group and created it.
C11_Witness ==
  /\ Returned("Install")
  /\ LET o == Ops(log)
     IN /\ OpIs(o, 1, "probe", IdCmd(cfg), "ok")
        /\ OpIs(o, 2, "probe", GetentCmd(cfg), "fail")
        /\ OpIs(o, 3, "cmd", GroupaddCmd(cfg), "ok")

(***************************************************************************)
(* C15                                                                     *)
(***************************************************************************)
\* C15: with no log directory, Install writes neither the relay configuration
\* nor any rotation file, whatever streams are declared: its only write is the
\* unit file, the relay and rotation stages are never entered, and an Install
\* that returns nil has ended with the unit file written, daemon-reload run and
\* enable --now run, in this order.
C15_NoLogDirNoLogFiles ==
  (cfg.LogDir = "" /\ (op = "Install" \/ Returned("Install"))) =>
    LET o == Ops(log)
        n == Len(o)
    IN /\ pc \notin {"I_rsyslog", "I_logrotate"}
       /\ \A i \in 1..n : o[i].k = "write" => o[i].a = cfg.SystemdFile
       /\ (Returned("Install") /\ hist[Len(hist)].ok) =>
            /\ n >= 3
            /\ OpIs(o, n - 2, "write", cfg.SystemdFile, "ok")
            /\ OpIs(o, n - 1, "cmd", ReloadCmd, "ok")
            /\ OpIs(o, n, "cmd", EnableCmd(cfg), "ok")

\* A successful first Install without a log directory and with streams declared.
C15_Witness ==
  /\ cfg.LogDir = ""
  /\ MapLen(cfg.Streams) > 0
  /\ Returned("Install") /\ Len(hist) = 1 /\ hist[1].ok
  /\ DOMAIN fs = {cfg.SystemdFile}
  /\ svc.enabled

(***************************************************************************)
(* NewServiceConfig as a run: the base configuration, then one step per    *)
(* option of the range over opts, then the return.                         *)
(***************************************************************************)
\* The characters of the enumerated binary paths: the separator, a character
\* sanitize keeps, the dot of "." and "..", a character sanitize deletes.
PathChars == {"/", "a", ".", "@"}

\* Binary paths of the package's tests (TestNewServiceConfig).
SamplePaths ==
  {<<"/", "u", "s", "r", "/", "b", "i", "n", "/", "m", "y", "-", "a", "p", "p">>,
   <<"/", "o", "p", "t", "/", "m", "y", "@", "a", "p", "p", "/", "b", "i", "n", "/", "m", "y", "-", "a", "p", "p", "!">>}

\* The binary paths handed to NewServiceConfig: every string of at most
\* MaxPathLen characters of PathChars (the empty string included), and the
\* sample paths.
BinPaths == UNION {[1..n -> PathChars] : n \in 0..MaxPathLen} \cup SamplePaths

LogDirs == {"", "/var/log/app"}

\* The options a call chooses from.
OptPool ==
  {WithServiceLine("Nice=5"),
   WithJournal,
   WithLogrotate,
   WithStream("CORE", "core.log"),
   WithStream("CORE", "main.log"),
   WithStreams([k \in {"CORE", "AUX"} |-> IF k = "CORE" THEN "all.log" ELSE "aux.log"])}

OptSeqs == UNION {[1..n -> OptPool] : n \in 0..MaxOpts}

NoManager == [exists |-> FALSE]

\* NewServiceConfig(user, group, bin, logDir, opts...) has built its base
\* configuration c; i counts the options applied so far.
BuildInit ==
  /\ build \in {[stage |-> "opts", bin |-> b, logDir |-> d, opts |-> os, i |-> 0,
                 c |-> BaseConfig("svc", "svc", b, d)] :
                  b \in BinPaths, d \in LogDirs, os \in OptSeqs}
  /\ peer = NoPeer
  /\ senders = NoSenders
  /\ cfg = NoManager
  /\ infoChan = NilChan
  /\ errChan = NilChan
  /\ users = {}
  /\ groups = {}
  /\ fs = [p \in {} |-> <<>>]
  /\ svc = [enabled |-> FALSE, active |-> FALSE]
  /\ op = "idle"
  /\ pc = "idle"
  /\ pending = {}
  /\ idx = 0
  /\ ret = Running
  /\ log = <<>>
  /\ hist = <<>>

\* One iteration of "for _, opt := range opts { opt(&config) }".
ApplyNextOpt ==
  /\ build.stage = "opts"
  /\ build.i < Len(build.opts)
  /\ build' = [build EXCEPT !.i = @ + 1, !.c = ApplyOpt(build.opts[build.i + 1], @)]
  /\ UNCHANGED <<peer, senders, cfg, infoChan, errChan, users, groups, fs, svc,
                 op, pc, pending, idx, ret, log, hist>>

\* "return config", after the last option.
ReturnConfig ==
  /\ build.stage = "opts"
  /\ build.i = Len(build.opts)
  /\ build' = [build EXCEPT !.stage = "returned"]
  /\ UNCHANGED <<peer, senders, cfg, infoChan, errChan, users, groups, fs, svc,
                 op, pc, pending, idx, ret, log, hist>>

BuildNext == ApplyNextOpt \/ ReturnConfig

BuildSpec == BuildInit /\ [][BuildNext]_vars

\* NewServiceConfig has returned the config build.c.
Built == build.stage = "returned"

(***************************************************************************)
(* C14                                                                     *)
(***************************************************************************)
\* WithLogrotate is among the first n options of the call.
RotationRequested(n) == \E j \in 1..n : build.opts[j] = WithLogrotate

\* C14 as stated: every config NewServiceConfig returns for an empty log
\* directory has MakeLogrotate off.
C14_DescriptorRotationOff ==
  (Built /\ build.logDir = "") => ~build.c.MakeLogrotate

\* C14, amended: the config NewServiceConfig returns carries MakeLogrotate
\* exactly as requested (on iff WithLogrotate is among the options, wherever
\* it stands, whatever the log directory); the flag is off in the config of
\* every Manager NewManager builds from a config with an empty log directory.
C14_RotationAsRequested ==
  Built =>
    /\ build.c.LogDir = build.logDir
    /\ build.c.MakeLogrotate <=> RotationRequested(Len(build.opts))
    /\ build.logDir = "" => ~NewManager(build.c).MakeLogrotate

\* A config returned for an empty log directory with WithLogrotate as the
\* first of two options: the flag is on.
C14_Witness ==
  /\ Built
  /\ build.logDir = ""
  /\ Len(build.opts) = 2
  /\ build.opts[1] = WithLogrotate
  /\ build.c.MakeLogrotate

(***************************************************************************)
(* C18                                                                     *)
(***************************************************************************)
\* The lines of the first n options of the call, in call order.
RECURSIVE LinesOf(_, _)
LinesOf(os, n) == IF n = 0 THEN <<>> ELSE LinesOf(os, n - 1) \o OptLines(os[n])

\* C18: the options are applied strictly left to right: after i options
\* ServiceLines is the concatenation, in call order, of the lines each of
\* them appends, duplicates kept; with no option it is empty.
C18_LinesInCallOrder ==
  /\ build.c.ServiceLines = LinesOf(build.opts, build.i)
  /\ (Built /\ build.opts = <<>>) => build.c.ServiceLines = <<>>
  /\ Built => build.i = Len(build.opts)

\* A config returned with the two
\* lines of WithJournal followed by the line of WithServiceLine.
C18_Witness ==
  /\ Built
  /\ build.opts = <<WithJournal, WithServiceLine("Nice=5")>>
  /\ build.c.ServiceLines = <<"StandardOutput=journal", "StandardError=journal", "Nice=5">>

(***************************************************************************)
(* C19                                                                     *)
(***************************************************************************)
\* The pairs an option stores into the stream mapping.
PairsOf(o) ==
  CASE o.t = "WithStream" -> [k \in {o.a} |-> o.b]
    [] o.t = "WithStreams" -> o.m
    [] OTHER -> NoKV

IsStreamOpt(o) == o.t \in {"WithStream", "WithStreams"}

\* The positions among the first n options that store the key k.
Setters(k, n) == {j \in 1..n : k \in DOMAIN PairsOf(build.opts[j])}

\* c after WithStream(k, m[k]) for the keys k of the map m, in the given order.
RECURSIVE EachPair(_, _, _)
EachPair(c, m, order) ==
  IF order = <<>> THEN c
  ELSE EachPair(ApplyOpt(WithStream(Head(order), m[Head(order)]), c), m, Tail(order))

\* C19: the stream mapping after any sequence of WithStream / WithStreams is
\* last-write-wins per key: its keys are the keys any option stored, each with
\* the value of the last option that stored it (keys not stored again keep
\* their value); the map stays nil iff no stream option was applied; and
\* applying WithStreams(m) gives the same mapping as applying WithStream(k, v)
\* for every pair of m, in any order.
C19_LastWriteWins ==
  LET n == build.i
      s == build.c.Streams
  IN /\ s.isNil <=> ~\E j \in 1..n : IsStreamOpt(build.opts[j])
     /\ DOMAIN s.kv = UNION {DOMAIN PairsOf(build.opts[j]) : j \in 1..n}
     /\ \A k \in DOMAIN s.kv :
          LET last == CHOOSE j \in Setters(k, n) : \A h \in Setters(k, n) : h <= j
          IN s.kv[k] = PairsOf(build.opts[last])[k]
     /\ (build.stage = "opts" /\ n < Len(build.opts) /\ build.opts[n + 1].t = "WithStreams") =>
          LET m == build.opts[n + 1].m
          IN \A order \in Orders(DOMAIN m) :
               ApplyOpt(build.opts[n + 1], build.c).Streams = EachPair(build.c, m, order).Streams

\* WithStream("CORE", "core.log") then WithStreams: CORE is overwritten, AUX added.
C19_Witness ==
  /\ Built
  /\ Len(build.opts) = 2
  /\ build.opts[1] = WithStream("CORE", "core.log")
  /\ build.opts[2].t = "WithStreams"
  /\ build.c.Streams.kv = [k \in {"CORE", "AUX"} |-> IF k = "CORE" THEN "all.log" ELSE "aux.log"]

(***************************************************************************)
(* C20                                                                     *)
(***************************************************************************)
\* The non-empty elements of the path p.
NonEmpty(seg) == seg # <<>>
Segments(p) == SelectSeq(SplitPath(p, <<>>), NonEmpty)

\* A path that names a file in a directory: it does not end with a separator,
\* has at least two elements and none of them is "." or "..".
Plain(p) ==
  /\ p # <<>> /\ p[Len(p)] # "/"
  /\ Len(Segments(p)) >= 2
  /\ \A j \in 1..Len(Segments(p)) : Segments(p)[j] \notin {<<".">>, <<".", ".">>}

\* C20: no option touches the derived names, so in the config NewServiceConfig
\* builds the slug is sanitize(final element of the parent directory) "-"
\* sanitize(final element of the path) (for a plain path: of its last two
\* elements), the service name is the slug with ".service", the install path
\* is /etc/systemd/system/<service name>; the three are a function of the
\* path string alone.
C20_DerivedNames ==
  LET c == build.c
      bin == build.bin
      segs == Segments(bin)
      n == Len(segs)
  IN /\ c.BinaryPath = Str(bin)
     /\ c.UniqueName = Str(sanitize(Base(Dir(bin)))) \o "-" \o Str(sanitize(Base(bin)))
     /\ Plain(bin) => c.UniqueName = Str(sanitize(segs[n - 1])) \o "-" \o Str(sanitize(segs[n]))
     /\ c.ServiceName = c.UniqueName \o ".service"
     /\ c.SystemdFile = "/etc/systemd/system/" \o c.ServiceName

\* The config returned for /opt/my@app/bin/my-app! after two options.
C20_Witness ==
  /\ Built
  /\ Len(build.opts) = 2
  /\ build.c.BinaryPath = "/opt/my@app/bin/my-app!"
  /\ build.c.UniqueName = "bin-my-app"
  /\ build.c.SystemdFile = "/etc/systemd/system/bin-my-app.service"

(***************************************************************************)
(* The caller and its Manager: the caller fills a ServiceConfig, calls     *)
(* NewManager on it and goes on writing to its own ServiceConfig.          *)
(* "configCopy := *cfg" copies the struct: the scalar fields are the       *)
(* Manager's own, while the Streams map and the array behind ServiceLines  *)
(* are the ones the caller's config refers to.                             *)
(***************************************************************************)
\* The configs the caller fills in: SystemdFile left empty, or a path of its
\* own (TestNewManager).
CallerGiven ==
  CallerConfigs \cup {[c0 EXCEPT !.SystemdFile = "/custom/path/test.service"] : c0 \in CallerConfigs}

\* The caller holds the config build.c; no Manager exists yet.
CallerInit ==
  /\ build \in {[stage |-> "config", c |-> c0] : c0 \in CallerGiven}
  /\ peer = NoPeer
  /\ senders = NoSenders
  /\ cfg = NoManager
  /\ infoChan = NilChan
  /\ errChan = NilChan
  /\ users = {}
  /\ groups = {}
  /\ fs = [p \in {} |-> <<>>]
  /\ svc = [enabled |-> FALSE, active |-> FALSE]
  /\ op = "idle"
  /\ pc = "idle"
  /\ pending = {}
  /\ idx = 0
  /\ ret = Running
  /\ log = <<>>
  /\ hist = <<>>

\* m := NewManager(&config, WithInfoChan(ic), WithErrorChan(ec)); a channel
\* option left out leaves the channel nil.
ConstructManager ==
  /\ build.stage = "config"
  /\ cfg' = NewManager(build.c)
  /\ infoChan' \in Channels
  /\ errChan' \in Channels
  /\ build' = [build EXCEPT !.stage = "managed"]
  /\ UNCHANGED <<peer, senders, users, groups, fs, svc, op, pc, pending, idx, ret, log, hist>>

\* The values the caller assigns to scalar fields of its config afterwards.
FieldWrites ==
  {<<"LogDir", "/mnt/logs">>, <<"UniqueName", "other">>, <<"User", "root">>,
   <<"MakeLogrotate", TRUE>>}

\* config.<field> = value: the caller's struct only.
CallerSetsField ==
  /\ build.stage = "managed"
  /\ \E w \in FieldWrites : build' = [build EXCEPT !.c[w[1]] = w[2]]
  /\ UNCHANGED <<peer, senders, cfg, infoChan, errChan, users, groups, fs, svc,
                 op, pc, pending, idx, ret, log, hist>>

\* config.Streams[k] = "moved.log": a write into the map, which is the map
\* the Manager's copy refers to as well.
CallerSetsStream ==
  /\ build.stage = "managed"
  /\ ~build.c.Streams.isNil
  /\ \E k \in MapKeys(build.c.Streams) \cup {"EXTRA"} :
       /\ build' = [build EXCEPT !.c = SetStream(@, k, "moved.log")]
       /\ cfg' = SetStream(cfg, k, "moved.log")
  /\ UNCHANGED <<peer, senders, infoChan, errChan, users, groups, fs, svc,
                 op, pc, pending, idx, ret, log, hist>>

\* config.ServiceLines[i] = "User=root": a write into the array behind the
\* slice, which is the array behind the Manager's slice as well.
CallerSetsLine ==
  /\ build.stage = "managed"
  /\ \E i \in 1..Len(build.c.ServiceLines) :
       /\ build' = [build EXCEPT !.c.ServiceLines[i] = "User=root"]
       /\ cfg' = [cfg EXCEPT !.ServiceLines[i] = "User=root"]
  /\ UNCHANGED <<peer, senders, infoChan, errChan, users, groups, fs, svc,
                 op, pc, pending, idx, ret, log, hist>>

CallerNext == ConstructManager \/ CallerSetsField \/ CallerSetsStream \/ CallerSetsLine

CallerSpec == CallerInit /\ [][CallerNext]_vars

\* The Manager exists.
Managed == build.stage = "managed"

\* All that Install and Uninstall of a Manager with the config c write, remove
\* and invoke: the unit file, the relay configuration (for each order the
\* range may take), the rotation files, the removals and the command lines.
Generated(c) ==
  [unit |-> <<c.SystemdFile, unitText(c)>>,
   relay |-> IF c.LogDir # "" /\ MapLen(c.Streams) > 0
             THEN {<<rsyslogPath(c), rsyslogText(c, order)>> : order \in Orders(MapKeys(c.Streams))}
             ELSE {},
   rotation |-> IF c.LogDir # ""
                THEN {<<logrotatePath(c, k), logrotateConfig(c, k)>> : k \in LogrotateRange(c)}
                ELSE {},
   removes |-> filesToRemove(c),
   cmds |-> {IdCmd(c), UseraddCmd(c), GetentCmd(c), GroupaddCmd(c),
             EnableCmd(c), DisableCmd(c), StopCmd(c)}]

(***************************************************************************)
(* C12                                                                     *)
(***************************************************************************)
\* C12: the Manager holds a snapshot: no write the caller makes to its own
\* config after NewManager has returned (a scalar field, an entry of the
\* Streams map, an element of ServiceLines) changes what Install and
\* Uninstall of the Manager write, remove or invoke.
C12_ManagerSnapshot ==
  [][(Managed /\ Managed') => Generated(cfg') = Generated(cfg)]_vars

(***************************************************************************)
(* C13                                                                     *)
(***************************************************************************)
\* C13: in every Manager, rotation enabled implies a non-empty log
\* directory: NewManager turns MakeLogrotate off when LogDir is empty and
\* keeps the caller's flag otherwise, and leaves the caller's own config as
\* it was.
C13_RotationNeedsLogDir ==
  /\ [](Managed => (cfg.MakeLogrotate => cfg.LogDir # ""))
  /\ [][(build.stage = "config" /\ Managed') =>
          /\ cfg'.MakeLogrotate <=> (build.c.MakeLogrotate /\ build.c.LogDir # "")
          /\ cfg'.LogDir = build.c.LogDir
          /\ build'.c = build.c]_vars

\* A Manager built from a config with the flag on and no log directory: the
\* Manager's flag is off, the caller's is still on.
C13_Witness ==
  /\ Managed
  /\ build.c.MakeLogrotate /\ build.c.LogDir = ""
  /\ ~cfg.MakeLogrotate /\ cfg.LogDir = ""

(***************************************************************************)
(* Two services: two configs made by NewServiceConfig, each handed to its  *)
(* own Manager, and the file paths each Manager's Install generates.       *)
(***************************************************************************)
\* The binary paths of the two services; their slugs are a-b, a-bc, a-b-c.
PairBins ==
  {<<"/", "a", "/", "b">>, <<"/", "a", "/", "b", "c">>, <<"/", "a", "/", "b", "-", "c">>}

\* The stream names the two services choose from, as strings of characters.
PairStreams == {<<"d">>, <<"c", "d">>, <<"c", "-", "d">>}

\* NewServiceConfig("svc", "svc", bin, "/var/log/app", WithLogrotate(),
\* WithStreams(m)) with one entry of m per name, then NewManager on the result.
ManagedConfig(bin, names) ==
  LET m == [k \in {Str(n) : n \in names} |-> k \o ".log"]
      c == ApplyOpt(WithStreams(m),
             ApplyOpt(WithLogrotate, BaseConfig("svc", "svc", bin, "/var/log/app")))
  IN NewManager(c)

\* The paths of the files Install generates for the config c: the unit file,
\* the relay configuration and one rotation file per stream.
GeneratedPaths(c) ==
  {c.SystemdFile, rsyslogPath(c)} \cup {logrotatePath(c, k) : k \in MapKeys(c.Streams)}

PairInit ==
  /\ build \in {[stage |-> "config", names |-> ns, c |-> ManagedConfig(b, ns), paths |-> {}] :
                  b \in PairBins, ns \in SUBSET PairStreams}
  /\ peer \in {[stage |-> "config", names |-> ns, c |-> ManagedConfig(b, ns), paths |-> {}] :
                  b \in PairBins, ns \in SUBSET PairStreams}
  /\ senders = NoSenders
  /\ cfg = NoManager
  /\ infoChan = NilChan
  /\ errChan = NilChan
  /\ users = {}
  /\ groups = {}
  /\ fs = [p \in {} |-> <<>>]
  /\ svc = [enabled |-> FALSE, active |-> FALSE]
  /\ op = "idle"
  /\ pc = "idle"
  /\ pending = {}
  /\ idx = 0
  /\ ret = Running
  /\ log = <<>>
  /\ hist = <<>>

\* The first service's Manager generates its files.
FirstGenerates ==
  /\ build.stage = "config"
  /\ build' = [build EXCEPT !.stage = "generated", !.paths = GeneratedPaths(build.c)]
  /\ UNCHANGED <<peer, senders, cfg, infoChan, errChan, users, groups, fs, svc,
                 op, pc, pending, idx, ret, log, hist>>

\* The second service's Manager generates its files.
SecondGenerates ==
  /\ peer.stage = "config"
  /\ peer' = [peer EXCEPT !.stage = "generated", !.paths = GeneratedPaths(peer.c)]
  /\ UNCHANGED <<build, senders, cfg, infoChan, errChan, users, groups, fs, svc,
                 op, pc, pending, idx, ret, log, hist>>

PairNext == FirstGenerates \/ SecondGenerates

PairSpec == PairInit /\ [][PairNext]_vars

(***************************************************************************)
(* C16                                                                     *)
(***************************************************************************)
\* Both services have generated their files and their slugs differ.
DistinctSlugsGenerated ==
  /\ build.stage = "generated" /\ peer.stage = "generated"
  /\ build.c.UniqueName # peer.c.UniqueName

HasDash(name) == \E i \in 1..Len(name) : name[i] = "-"

\* C16 as stated: two configs with different slugs (and default install
\* paths) share no generated file path, for any stream names.
C16_DisjointPaths ==
  DistinctSlugsGenerated => build.paths \cap peer.paths = {}

\* C16, amended: two configs with different slugs and default install paths
\* never share the unit file path or the relay configuration path, and share
\* no rotation file path when no stream name contains a dash; with a dash in
\* a stream name two rotation paths <slug>-<stream> can be the same string.
C16_DisjointPathsDashFree ==
  DistinctSlugsGenerated =>
    /\ build.c.SystemdFile # peer.c.SystemdFile
    /\ rsyslogPath(build.c) # rsyslogPath(peer.c)
    /\ {build.c.SystemdFile, rsyslogPath(build.c)} \cap peer.paths = {}
    /\ {peer.c.SystemdFile, rsyslogPath(peer.c)} \cap build.paths = {}
    /\ (\A n \in build.names \cup peer.names : ~HasDash(n)) =>
         build.paths \cap peer.paths = {}

\* Two services with the slugs a-b and a-bc, each with the dash-free streams
\* d and cd, have generated their four files each.
C16_Witness ==
  /\ DistinctSlugsGenerated
  /\ build.c.UniqueName = "a-b" /\ peer.c.UniqueName = "a-bc"
  /\ build.names = {<<"d">>, <<"c", "d">>} /\ peer.names = build.names
  /\ Cardinality(build.paths) = 4 /\ Cardinality(peer.paths) = 4
  /\ build.paths \cap peer.paths = {}

(***************************************************************************)
(* Concurrent senders on one Manager (TestRaceConditions): goroutines that *)
(* each call m.infof or m.error NumSends times, and a receiver that may    *)
(* take messages from the channels meanwhile.                              *)
(***************************************************************************)
\* strconv of a non-negative integer, as %d prints it.
Digits == <<"0", "1", "2", "3", "4", "5", "6", "7", "8", "9">>
RECURSIVE Dec(_)
Dec(n) == IF n < 10 THEN Digits[n + 1] ELSE Dec(n \div 10) \o Digits[(n % 10) + 1]

\* fmt.Sprintf("test message %d-%d", id, j) and fmt.Errorf("test error %d-%d", id, j)
TestMessage(id, j) == "test message " \o Dec(id) \o "-" \o Dec(j)
TestError(id, j) == [msg |-> "test error " \o Dec(id) \o "-" \o Dec(j), errno |-> "test"]

\* The config of the test's Manager.
TestConfig ==
  [User |-> "testuser", Group |-> "testgroup",
   UniqueName |-> "test-service", ServiceName |-> "test-service.service",
   BinaryPath |-> "/usr/bin/test",
   LogDir |-> "",
   SystemdFile |-> "",
   ServiceLines |-> <<>>,
   MakeLogrotate |-> FALSE,
   Streams |-> NilMap]

\* A channel made with capacity 0 up to the number of all sends, or nil.
SendChannels == {NilChan} \cup {MakeChan(n) : n \in 0..(MaxSenders * MaxSends)}

\* The goroutines: each sends on the info or on the error channel; n counts
\* its completed calls, res holds what each call did with its message.
SenderSets ==
  [1..MaxSenders -> {[kind |-> k, n |-> 0, res |-> <<>>] : k \in {"info", "err"}}]

SendInit ==
  /\ senders \in {[procs |-> ps, taken |-> [info |-> 0, err |-> 0]] : ps \in SenderSets}
  /\ infoChan \in SendChannels
  /\ errChan \in SendChannels
  /\ build = NoBuild
  /\ peer = NoPeer
  /\ cfg = NewManager(TestConfig)
  /\ users = {}
  /\ groups = {}
  /\ fs = [p \in {} |-> <<>>]
  /\ svc = [enabled |-> FALSE, active |-> FALSE]
  /\ op = "idle"
  /\ pc = "idle"
  /\ pending = {}
  /\ idx = 0
  /\ ret = Running
  /\ log = <<>>
  /\ hist = <<>>

\* The record of a call by goroutine i: one more call completed with outcome
\* r; a message handed to a waiting receiver is one the receiver has taken.
AfterSend(i, k, ch, r) ==
  [senders EXCEPT !.procs[i].n = @ + 1,
                  !.procs[i].res = Append(@, r),
                  !.taken[k] = IF r = "sent" /\ ch.rdy THEN @ + 1 ELSE @]

\* Goroutine i makes its next call: m.infof("test message %d-%d", i, j).
SenderInfof(i) ==
  /\ senders.procs[i].kind = "info"
  /\ senders.procs[i].n < MaxSends
  /\ LET s == infof(infoChan, TestMessage(i, senders.procs[i].n + 1))
     IN /\ s.ready
        /\ infoChan' = s.ch
        /\ senders' = AfterSend(i, "info", infoChan, s.r)
  /\ UNCHANGED <<build, peer, cfg, errChan, users, groups, fs, svc, op, pc,
                 pending, idx, ret, log, hist>>

\* Goroutine i makes its next call: m.error(fmt.Errorf("test error %d-%d", i, j)).
SenderError(i) ==
  /\ senders.procs[i].kind = "err"
  /\ senders.procs[i].n < MaxSends
  /\ LET s == error(errChan, TestError(i, senders.procs[i].n + 1))
     IN /\ s.ready
        /\ errChan' = s.ch
        /\ senders' = AfterSend(i, "err", errChan, s.r)
  /\ UNCHANGED <<build, peer, cfg, infoChan, users, groups, fs, svc, op, pc,
                 pending, idx, ret, log, hist>>

\* What a receive or a giving up does to the count of taken messages.
AfterReceive(k, ch, chAfter) ==
  [senders EXCEPT !.taken[k] = IF Len(chAfter.buf) < Len(ch.buf) THEN @ + 1 ELSE @]

\* The receiver on the info channel: takes the oldest message, waits on an
\* unbuffered channel, or gives up waiting.
ReceiverInfo ==
  /\ ~infoChan.nil
  /\ infoChan' \in {Receive(infoChan), Leave(infoChan)}
  /\ infoChan' # infoChan
  /\ senders' = AfterReceive("info", infoChan, infoChan')
  /\ UNCHANGED <<build, peer, cfg, errChan, users, groups, fs, svc, op, pc,
                 pending, idx, ret, log, hist>>

\* The receiver on the error channel.
ReceiverErr ==
  /\ ~errChan.nil
  /\ errChan' \in {Receive(errChan), Leave(errChan)}
  /\ errChan' # errChan
  /\ senders' = AfterReceive("err", errChan, errChan')
  /\ UNCHANGED <<build, peer, cfg, infoChan, users, groups, fs, svc, op, pc,
                 pending, idx, ret, log, hist>>

SendNext ==
  \/ \E i \in 1..MaxSenders : SenderInfof(i)
  \/ \E i \in 1..MaxSenders : SenderError(i)
  \/ ReceiverInfo
  \/ ReceiverErr

SendSpec == SendInit /\ [][SendNext]_vars

(***************************************************************************)
(* C17                                                                     *)
(***************************************************************************)
\* The completed calls of kind k, and those among them with the outcome r.
CallsOf(k) == {<<i, j>> \in (1..MaxSenders) \X (1..MaxSends) :
                 senders.procs[i].kind = k /\ j <= senders.procs[i].n}
CallsWith(k, r) == {x \in CallsOf(k) : senders.procs[x[1]].res[x[2]] = r}

\* All calls the goroutines of kind k make in a run.
TotalCalls(k) == Cardinality({i \in 1..MaxSenders : senders.procs[i].kind = k}) * MaxSends

\* Goroutine i completes a call in this step.
Calls(i) == senders'.procs[i].n = senders.procs[i].n + 1

\* What a call of goroutine i on the channel ch (chAfter after it) with the
\* formatted message msg may do: with a receiver waiting or room in the
\* buffer the message is delivered; it is dropped only if the send would
\* block, and then the channel is left as it was.
SendOutcome(i, ch, chAfter, msg) ==
  LET r == senders'.procs[i].res[senders'.procs[i].n]
  IN /\ (~ch.nil /\ ~WouldBlock(ch)) => (r = "sent" /\ Delivered(ch, chAfter, msg))
     /\ r = "dropped" => (WouldBlock(ch) /\ chAfter = ch)
     /\ r = "nochan" <=> ch.nil

\* C17: a notification is dropped only when its send would block: with free
\* buffer capacity (or a waiting receiver) the message is put into the
\* channel with its formatted content, whatever the other goroutines do; the
\* messages in a channel plus the ones taken from it are the ones sent, so
\* with capacity for all sends and nothing taken by a receiver the channel
\* holds as many messages as calls were made.
C17_DroppedOnlyWhenBlocked ==
  /\ [][\A i \in 1..MaxSenders :
          Calls(i) =>
            IF senders.procs[i].kind = "info"
            THEN SendOutcome(i, infoChan, infoChan', TestMessage(i, senders.procs[i].n + 1))
            ELSE SendOutcome(i, errChan, errChan', TestError(i, senders.procs[i].n + 1).msg)]_vars
  /\ [](/\ ~infoChan.nil =>
            Len(infoChan.buf) + senders.taken.info = Cardinality(CallsWith("info", "sent"))
        /\ ~errChan.nil =>
            Len(errChan.buf) + senders.taken.err = Cardinality(CallsWith("err", "sent"))
        /\ (~infoChan.nil /\ infoChan.cap >= TotalCalls("info") /\ senders.taken.info = 0) =>
            Len(infoChan.buf) = Cardinality(CallsOf("info"))
        /\ (~errChan.nil /\ errChan.cap >= TotalCalls("err") /\ senders.taken.err = 0) =>
            Len(errChan.buf) = Cardinality(CallsOf("err")))

\* All goroutines have sent on the info channel, interleaved, and the channel,
\* made with room for all sends, holds every message; nothing was taken.
C17_Witness ==
  /\ \A i \in 1..MaxSenders : senders.procs[i].kind = "info" /\ senders.procs[i].n = MaxSends
  /\ infoChan.cap = MaxSenders * MaxSends
  /\ senders.taken.info = 0
  /\ Len(infoChan.buf) = MaxSenders * MaxSends
  /\ infoChan.buf[1] = TestMessage(1, 1)
  /\ infoChan.buf[2] = TestMessage(2, 1)

(***************************************************************************)
(* sanitize on its own (TestSanitize): a string is sanitized, and the      *)
(* result sanitized once more.                                             *)
(***************************************************************************)
\* The characters of the strings sanitized: a lower-case and an upper-case
\* letter, a digit, the underscore and the dash (all kept), and three
\* characters the pattern matches.
NameChars == {"a", "Z", "7", "_", "-", "@", " ", "/"}

\* Every string of at most MaxNameLen characters of NameChars.
Names == UNION {[1..n -> NameChars] : n \in 0..MaxNameLen}

\* The caller holds the string x.
SanitizeInit ==
  /\ build \in {[stage |-> "input", x |-> x, y |-> <<>>, z |-> <<>>] : x \in Names}
  /\ peer = NoPeer
  /\ senders = NoSenders
  /\ cfg = NoManager
  /\ infoChan = NilChan
  /\ errChan = NilChan
  /\ users = {}
  /\ groups = {}
  /\ fs = [p \in {} |-> <<>>]
  /\ svc = [enabled |-> FALSE, active |-> FALSE]
  /\ op = "idle"
  /\ pc = "idle"
  /\ pending = {}
  /\ idx = 0
  /\ ret = Running
  /\ log = <<>>
  /\ hist = <<>>

\* y := sanitize(x)
SanitizeInput ==
  /\ build.stage = "input"
  /\ build' = [build EXCEPT !.stage = "sanitized", !.y = sanitize(build.x)]
  /\ UNCHANGED <<peer, senders, cfg, infoChan, errChan, users, groups, fs, svc,
                 op, pc, pending, idx, ret, log, hist>>

\* z := sanitize(y)
SanitizeAgain ==
  /\ build.stage = "sanitized"
  /\ build' = [build EXCEPT !.stage = "twice", !.z = sanitize(build.y)]
  /\ UNCHANGED <<peer, senders, cfg, infoChan, errChan, users, groups, fs, svc,
                 op, pc, pending, idx, ret, log, hist>>

SanitizeNext == SanitizeInput \/ SanitizeAgain

SanitizeSpec == SanitizeInit /\ [][SanitizeNext]_vars

(***************************************************************************)
(* C21                                                                     *)
(***************************************************************************)
\* The letters, digits, underscore and dash among NameChars.
KeptChars == {"a", "Z", "7", "_", "-"}

\* The positions of x that hold a character of [A-Za-z0-9_-], and the k-th
\* of them from the left.
KeptAt(x) == {i \in 1..Len(x) : x[i] \in KeptChars}
NthKept(x, k) == CHOOSE i \in KeptAt(x) : Cardinality({j \in KeptAt(x) : j <= i}) = k

\* C21: sanitize removes every character outside [A-Za-z0-9_-] and keeps
\* every character inside it, in the original order: its output is the input
\* restricted to the positions of allowed characters; so the output holds
\* allowed characters only and sanitizing it again changes nothing.
C21_SanitizeKeepsAllowed ==
  /\ build.stage \in {"sanitized", "twice"} =>
       /\ Len(build.y) = Cardinality(KeptAt(build.x))
       /\ \A k \in 1..Len(build.y) : build.y[k] = build.x[NthKept(build.x, k)]
       /\ \A k \in 1..Len(build.y) : build.y[k] \in KeptChars
  /\ build.stage = "twice" => build.z = build.y

\* A string of the greatest length that starts with a dash and a deleted
\* character and ends with a letter, with only the two kept, sanitized twice.
C21_Witness ==
  /\ build.stage = "twice"
  /\ Len(build.x) = MaxNameLen
  /\ Len(build.y) = 2
  /\ build.x[1] = "-" /\ build.x[2] = "@" /\ build.x[Len(build.x)] = "Z"
  /\ build.y = <<"-", "Z">>
  /\ build.z = build.y

(***************************************************************************)
(* The three writers called directly on a ServiceConfig, as the package's  *)
(* tests call them: writeSystemdUnit, writeRsyslogConf and                 *)
(* writeLogrotateConfs, one after the other, and then all three again on   *)
(* the same ServiceConfig.                                                 *)
(***************************************************************************)
\* The ServiceLines of the configs rendered: none, two in an order that is
\* not the sorted one, and the same line twice.
RenderLines == {<<>>, <<"UMask=0022", "Nice=5">>, <<"Nice=5", "Nice=5">>}

\* The configs handed to the writers.
RenderConfigs ==
  [User : {"svc"}, Group : {"svc"},
   UniqueName : {"bin-app"}, ServiceName : {"bin-app.service"},
   BinaryPath : {"/opt/app/bin/app"},
   LogDir : {"", "/var/log/app"},
   SystemdFile : {"/etc/systemd/system/bin-app.service"},
   ServiceLines : RenderLines,
   MakeLogrotate : BOOLEAN,
   Streams : {NilMap} \cup {MakeMap(n) : n \in 0..MaxStreams}]

\* cfg is the config rendered, idx the number of the run, pc the writer to be
\* called next, ret what the last writer returned, peer the files as the run
\* before left them.
RenderInit ==
  /\ cfg \in RenderConfigs
  /\ build = NoBuild
  /\ peer = NoPeer
  /\ senders = NoSenders
  /\ infoChan = NilChan
  /\ errChan = NilChan
  /\ users = {}
  /\ groups = {}
  /\ fs = [p \in {} |-> <<>>]
  /\ svc = [enabled |-> FALSE, active |-> FALSE]
  /\ op = "Render"
  /\ pc = "unit"
  /\ pending = {}
  /\ idx = 1
  /\ ret = Running
  /\ log = <<>>
  /\ hist = <<>>

\* writeSystemdUnit that appends to the file it finds instead of replacing it.
RenderUnit_Append ==
  /\ op = "Render" /\ pc = "unit"
  /\ \E ok \in BOOLEAN :
       /\ log' = Append(log, Ev("write", cfg.SystemdFile, Res(ok)))
       /\ IF ok
          THEN /\ fs' = FsWrite(cfg.SystemdFile,
                                (IF cfg.SystemdFile \in DOMAIN fs THEN fs[cfg.SystemdFile] ELSE <<>>)
                                  \o unitText(cfg))
               /\ ret' = NilErr.msg
          ELSE fs' = fs /\ ret' = WriteErr(cfg.SystemdFile).msg
  /\ pc' = "rsyslog"
  /\ UNCHANGED <<build, peer, senders, cfg, infoChan, errChan, users, groups, svc,
                 op, pending, idx, hist>>

\* err := writeSystemdUnit(&cfg)
RenderUnit ==
  /\ op = "Render" /\ pc = "unit"
  /\ \E ok \in BOOLEAN :
       /\ log' = Append(log, Ev("write", cfg.SystemdFile, Res(ok)))
       /\ IF ok
          THEN fs' = FsWrite(cfg.SystemdFile, unitText(cfg)) /\ ret' = NilErr.msg
          ELSE fs' = fs /\ ret' = WriteErr(cfg.SystemdFile).msg
  /\ pc' = "rsyslog"
  /\ UNCHANGED <<build, peer, senders, cfg, infoChan, errChan, users, groups, svc,
                 op, pending, idx, hist>>

\* err := writeRsyslogConf(&cfg); the call of writeLogrotateConfs that follows
\* returns at once on its guard, or starts its range over the map.
RenderRsyslog ==
  /\ op = "Render" /\ pc = "rsyslog"
  /\ IF MapLen(cfg.Streams) = 0
     THEN /\ fs' = fs
          /\ log' = log
          /\ ret' = NilErr.msg
     ELSE \E order \in Orders(MapKeys(cfg.Streams)), ok \in BOOLEAN :
            /\ log' = Append(log, Ev("write", rsyslogPath(cfg), Res(ok)))
            /\ IF ok
               THEN fs' = FsWrite(rsyslogPath(cfg), rsyslogText(cfg, order)) /\ ret' = NilErr.msg
               ELSE fs' = fs /\ ret' = WriteErr(rsyslogPath(cfg)).msg
  /\ pc' = "logrotate"
  /\ pending' = LogrotateRange(cfg)
  /\ UNCHANGED <<build, peer, senders, cfg, infoChan, errChan, users, groups, svc,
                 op, idx, hist>>

\* writeLogrotateConfs(&cfg): one iteration of its range, or its return.
RenderLogrotate ==
  /\ op = "Render" /\ pc = "logrotate"
  /\ IF pending = {}
     THEN /\ ret' = NilErr.msg
          /\ pc' = "done"
          /\ UNCHANGED <<fs, pending, log>>
     ELSE \E streamName \in pending, ok \in BOOLEAN :
            LET configPath == logrotatePath(cfg, streamName)
            IN /\ log' = Append(log, Ev("write", configPath, Res(ok)))
               /\ IF ok
                  THEN /\ fs' = FsWrite(configPath, logrotateConfig(cfg, streamName))
                       /\ pending' = pending \ {streamName}
                       /\ ret' = Running
                       /\ pc' = "logrotate"
                  ELSE /\ fs' = fs
                       /\ pending' = {}
                       /\ ret' = Wrap("failed to write logrotate config for stream "
                                        \o streamName, WriteErr(configPath)).msg
                       /\ pc' = "done"
  /\ UNCHANGED <<build, peer, senders, cfg, infoChan, errChan, users, groups, svc,
                 op, idx, hist>>

\* The three writers are called once more on the same config; peer keeps the
\* files as this run leaves them.
RenderAgain ==
  /\ op = "Render" /\ pc = "done"
  /\ idx < MaxRuns
  /\ peer' = [stage |-> "rendered", fs |-> fs]
  /\ idx' = idx + 1
  /\ pc' = "unit"
  /\ ret' = Running
  /\ log' = <<>>
  /\ UNCHANGED <<build, senders, cfg, infoChan, errChan, users, groups, fs, svc,
                 op, pending, hist>>

RenderNext == RenderUnit \/ RenderRsyslog \/ RenderLogrotate \/ RenderAgain

RenderSpec == RenderInit /\ [][RenderNext]_vars

(***************************************************************************)
(* C22                                                                     *)
(***************************************************************************)
\* The positions of the text t that hold the line l.
LinesAt(t, l) == {i \in 1..Len(t) : t[i] = l}

\* C22: the unit file written holds the ServiceLines in exactly their order,
\* each as a line of its own, right after the one Group= line and right
\* before the one [Install] line; with no ServiceLines the [Install] line
\* follows the Group= line at once.
C22_DirectiveLinesInOrder ==
  cfg.SystemdFile \in DOMAIN fs =>
    LET t == fs[cfg.SystemdFile]
        n == Len(cfg.ServiceLines)
        G == LinesAt(t, "Group=" \o cfg.Group)
        I == LinesAt(t, "[Install]")
    IN /\ Cardinality(G) = 1 /\ Cardinality(I) = 1
       /\ LET g == CHOOSE i \in G : TRUE
              k == CHOOSE i \in I : TRUE
          IN /\ k = g + n + 1
             /\ SubSeq(t, g + 1, k - 1) = cfg.ServiceLines
             /\ n = 0 => t[g + 1] = "[Install]"

\* The unit file of a config with two ServiceLines, UMask before Nice, written.
C22_Witness ==
  /\ op = "Render"
  /\ cfg.ServiceLines = <<"UMask=0022", "Nice=5">>
  /\ cfg.SystemdFile \in DOMAIN fs
  /\ LinesAt(fs[cfg.SystemdFile], "Nice=5") = {12}
  /\ LinesAt(fs[cfg.SystemdFile], "UMask=0022") = {11}

(***************************************************************************)
(* C23                                                                     *)
(***************************************************************************)
\* The call of the writer of the file at path, in the current run, wrote it.
Wrote(path) == \E i \in 1..Len(log) : log[i] = Ev("write", path, "ok")
\* The current run tried to write the file at path.
TriedWrite(path) == \E i \in 1..Len(log) : log[i].k = "write" /\ log[i].a = path

\* The first line of the rule of stream k, and the line that routes it.
RuleHead(k) == "if $msg contains 'stream=" \o k \o "' then {"
RuleAction(c, k) ==
  "\taction(type=\"omfile\" file=\"" \o c.LogDir \o "/" \o c.Streams.kv[k]
     \o "\" template=\"" \o c.UniqueName \o "\""
TemplateLine(c) ==
  "template(name=\"" \o c.UniqueName \o "\" type=\"string\" string=\"%msg%\\n\")"

\* The positions of the text t that open a rule.
Opening(t) == {i \in 1..Len(t) : \E k \in {StreamPool[j] : j \in 1..Len(StreamPool)} : t[i] = RuleHead(k)}

\* C23: the relay configuration written holds exactly one rule per stream
\* key, which matches stream=<name> and routes to <log directory>/<file>,
\* with one stop per rule, and declares the message template once; for an
\* empty or nil mapping writeRsyslogConf writes no file and returns nil.
C23_OneRulePerStream ==
  (op = "Render" /\ pc \in {"logrotate", "done"}) =>
    /\ Wrote(rsyslogPath(cfg)) =>
         LET t == fs[rsyslogPath(cfg)]
             keys == MapKeys(cfg.Streams)
         IN /\ Cardinality(LinesAt(t, TemplateLine(cfg))) = 1
            /\ Cardinality(LinesAt(t, "\tstop")) = Cardinality(keys)
            /\ Cardinality(Opening(t)) = Cardinality(keys)
            /\ Cardinality(LinesAt(t, "}")) = Cardinality(keys)
            /\ \A k \in keys :
                 /\ Cardinality(LinesAt(t, RuleHead(k))) = 1
                 /\ LET i == CHOOSE i \in LinesAt(t, RuleHead(k)) : TRUE
                    IN /\ i + 5 <= Len(t)
                       /\ t[i + 1] = RuleAction(cfg, k)
                       /\ t[i + 4] = "\tstop"
                       /\ t[i + 5] = "}"
    /\ MapLen(cfg.Streams) = 0 =>
         /\ ~TriedWrite(rsyslogPath(cfg))
         /\ rsyslogPath(cfg) \notin DOMAIN fs
         /\ pc = "logrotate" => ret = NilErr.msg

\* The relay configuration of a config with two streams, written.
C23_Witness ==
  /\ op = "Render" /\ pc = "logrotate"
  /\ MapLen(cfg.Streams) = 2
  /\ Wrote(rsyslogPath(cfg))
  /\ Len(fs[rsyslogPath(cfg)]) = 16

(***************************************************************************)
(* C24                                                                     *)
(***************************************************************************)
\* The file at path was written by the run before and again by this run.
WrittenAgain(path) == peer.stage = "rendered" /\ path \in DOMAIN peer.fs /\ Wrote(path)

\* The texts writeRsyslogConf can write for the config c.
RelayTexts(c) == {rsyslogText(c, order) : order \in Orders(MapKeys(c.Streams))}

\* C24 as stated: rendering is deterministic: every file a run writes again
\* for the same config (unit file, relay configuration, rotation files) has
\* the content the run before gave it, for any number of streams.
C24_SameBytesEveryRun ==
  op = "Render" =>
    \A path \in DOMAIN fs : WrittenAgain(path) => fs[path] = peer.fs[path]

\* C24, amended: for the same config the unit file and every rotation file
\* have the same content on every run, and so has the relay configuration of
\* a config with at most one stream; with two or more streams every run
\* writes the same header and the same rules, in an order of the rules that
\* may differ from run to run.
C24_SameBytesButRuleOrder ==
  op = "Render" =>
    \A path \in DOMAIN fs :
      WrittenAgain(path) =>
        IF path = rsyslogPath(cfg)
        THEN /\ fs[path] \in RelayTexts(cfg)
             /\ peer.fs[path] \in RelayTexts(cfg)
             /\ MapLen(cfg.Streams) <= 1 => fs[path] = peer.fs[path]
        ELSE fs[path] = peer.fs[path]

\* A config with two streams rendered twice: unit file and rotation files as
\* before, the relay configuration with its two rules in the other order.
C24_Witness ==
  /\ op = "Render" /\ pc = "done" /\ idx = 2
  /\ MapLen(cfg.Streams) = 2
  /\ WrittenAgain(cfg.SystemdFile)
  /\ WrittenAgain(rsyslogPath(cfg))
  /\ \A k \in MapKeys(cfg.Streams) : WrittenAgain(logrotatePath(cfg, k))
  /\ fs[rsyslogPath(cfg)] # peer.fs[rsyslogPath(cfg)]
  /\ fs[cfg.SystemdFile] = peer.fs[cfg.SystemdFile]

(***************************************************************************)
(* C25                                                                     *)
(***************************************************************************)
\* The writes of rotation files the current run has made, in order.
IsRotationWrite(e) ==
  e.k = "write" /\ e.a \notin {cfg.SystemdFile, rsyslogPath(cfg)}
RotationWrites == SelectSeq(log, IsRotationWrite)

\* C25: a call of writeLogrotateConfs that returns nil has written exactly one
\* rotation file per stream key, at /etc/logrotate.d/<slug>-<stream name>,
\* whose text names <log directory>/<file> of that stream; with rotation
\* disabled or the stream mapping empty or nil it writes no file and returns
\* nil.
C25_OneRotationFilePerStream ==
  (op = "Render" /\ pc = "done") =>
    LET w == RotationWrites
        keys == MapKeys(cfg.Streams)
    IN /\ (~cfg.MakeLogrotate \/ MapLen(cfg.Streams) = 0) => (w = <<>> /\ ret = NilErr.msg)
       /\ (cfg.MakeLogrotate /\ ret = NilErr.msg) =>
            /\ Len(w) = Cardinality(keys)
            /\ \A k \in keys :
                 LET path == "/etc/logrotate.d/" \o cfg.UniqueName \o "-" \o k
                 IN /\ Cardinality({i \in 1..Len(w) : w[i].a = path}) = 1
                    /\ Wrote(path)
                    /\ fs[path][1] = cfg.LogDir \o "/" \o cfg.Streams.kv[k] \o " {"
                    /\ Len(fs[path]) = 14

\* writeLogrotateConfs has returned nil for a config with rotation on and two
\* streams: the two rotation files exist.
C25_Witness ==
  /\ op = "Render" /\ pc = "done" /\ ret = NilErr.msg
  /\ cfg.MakeLogrotate /\ cfg.LogDir # ""
  /\ MapLen(cfg.Streams) = 2
  /\ Len(RotationWrites) = 2
  /\ \A k \in MapKeys(cfg.Streams) : logrotatePath(cfg, k) \in DOMAIN fs

(***************************************************************************)
(* C26                                                                     *)
(***************************************************************************)
\* The number of the stage pc stands for.
PcStage(p) ==
  CASE p = "I_user" -> 1 [] p = "I_group" -> 2 [] p = "I_rsyslog" -> 3
    [] p = "I_logrotate" -> 4 [] p = "I_unit" -> 5 [] p = "I_reload" -> 6
    [] p = "I_enable" -> 7 [] OTHER -> 8

\* The stage the Install call of the log stands in: the stage in progress,
\* the stage that failed, or 8 after a nil return.
Reached ==
  IF op = "Install" THEN PcStage(pc)
  ELSE IF hist[Len(hist)].ok THEN 8
  ELSE InstallStage(Ops(log)[Len(Ops(log))])

\* Install leaves out the stage s for its config.
Skipped(s) ==
  \/ s = 3 /\ cfg.LogDir = ""
  \/ s = 4 /\ (cfg.LogDir = "" \/ ~cfg.MakeLogrotate)

\* The stage s was run and succeeded.
Succeeded(s) == s < Reached /\ ~Skipped(s)

\* The message Install sends after the stage s (the stages 1 and 2, user and
\* group, are the one call of ensureServiceUser and have one message).
StageNote(s) ==
  CASE s = 2 -> "Service user and group ensured"
    [] s = 3 -> "Rsyslog configuration written"
    [] s = 4 -> "Logrotate configurations written"
    [] s = 5 -> "Systemd unit file written"
    [] s = 6 -> "Systemd daemon configuration reloaded"
    [] s = 7 -> "Service enabled and started successfully"
    [] OTHER -> "Installing service: " \o cfg.ServiceName

\* The positions of the log with an informational notification of a stage
\* (the announcement at the start of the call is none).
StageNotes == {i \in 1..Len(log) : log[i].k = "info" /\ i > 1}
NotesWith(msg) == {i \in 1..Len(log) : log[i].k = "info" /\ log[i].a = msg}

C27_DefaultUnitPath ==
  [][(build.stage = "config" /\ Managed') =>
       cfg'.SystemdFile = IF build.c.SystemdFile = ""
                          THEN "/etc/systemd/system/" \o build.c.ServiceName
                          ELSE build.c.SystemdFile]_vars

\* A Manager built from a config with its own unit file path.
C27_Witness ==
  /\ Managed
  /\ build.c.SystemdFile = "/custom/path/test.service"
  /\ cfg.SystemdFile = "/custom/path/test.service"

(***************************************************************************)
(* C28                                                                     *)
(***************************************************************************)
\* The positions of the operations o with the operation k a and outcome r.
OpsAt(o, k, a, r) == {i \in 1..Len(o) : o[i] = Ev(k, a, r)}

\* C28: enable --now is issued only after the unit file was written and a
\* daemon-reload that followed the write succeeded, in the same call; Install
\* returns nil only if these three happened, with the successful enable --now
\* of the config's service name as the last command of the call.
C28_EnableAfterUnitAndReload ==
  (op = "Install" \/ Returned("Install")) =>
    LET o == Ops(log)
        enable == {i \in 1..Len(o) : o[i].k = "cmd" /\ o[i].a = EnableCmd(cfg)}
    IN /\ \A i \in enable :
            \E j \in OpsAt(o, "write", cfg.SystemdFile, "ok") :
              \E k \in OpsAt(o, "cmd", ReloadCmd, "ok") : j < k /\ k < i
       /\ (Returned("Install") /\ ret = NilErr.msg) =>
            /\ OpsAt(o, "cmd", "systemctl enable --now " \o cfg.ServiceName, "ok") = {Len(o)}
            /\ cfg.SystemdFile \in DOMAIN fs
            /\ fs[cfg.SystemdFile] = unitText(cfg)
            /\ svc.enabled /\ svc.active
       /\ (Returned("Install") /\ enable = {}) => ret # NilErr.msg

\* A second Install that returned nil after a first one that failed.
C28_Witness ==
  /\ Returned("Install") /\ ret = NilErr.msg
  /\ Len(hist) = 2 /\ hist[1] = [op |-> "Install", ok |-> FALSE]
  /\ OpsAt(Ops(log), "cmd", EnableCmd(cfg), "ok") # {}

(***************************************************************************)
(* C29                                                                     *)
(***************************************************************************)
\* The text Install writes to the file at path can be t.
WrittenText(path, t) ==
  \/ path = cfg.SystemdFile /\ t = unitText(cfg)
  \/ path = rsyslogPath(cfg) /\ t \in RelayTexts(cfg)
  \/ \E k \in MapKeys(cfg.Streams) : path = logrotatePath(cfg, k) /\ t = logrotateConfig(cfg, k)

\* C29: Install never rolls back and never deletes: no step of Install
\* removes a file or changes a file other than by a successful write of its
\* own, and when Install has failed (or at any point of the call) every file
\* written earlier in the call is in place with the content written.
C29_NoRollback ==
  /\ [][op = "Install" =>
          /\ DOMAIN fs \subseteq DOMAIN fs'
          /\ \A p \in DOMAIN fs :
               fs'[p] # fs[p] => \E i \in 1..Len(log') : i > Len(log) /\ log'[i] = Ev("write", p, "ok")]_vars
  /\ []((op = "Install" \/ Returned("Install")) =>
          \A i \in 1..Len(log) :
            (log[i].k = "write" /\ log[i].r = "ok") =>
              /\ log[i].a \in DOMAIN fs
              /\ WrittenText(log[i].a, fs[log[i].a]))

\* A first Install that failed at its second rotation file: the relay
\* configuration and the first rotation file are in place.
C29_Witness ==
  /\ Returned("Install") /\ ret # NilErr.msg /\ Len(hist) = 1
  /\ Cardinality(DOMAIN fs) = 2
  /\ rsyslogPath(cfg) \in DOMAIN fs
  /\ \E k \in MapKeys(cfg.Streams) :
       /\ logrotatePath(cfg, k) \in DOMAIN fs
       /\ fs[logrotatePath(cfg, k)] = logrotateConfig(cfg, k)
  /\ Failed(log[Len(log) - 1]) /\ InstallStage(log[Len(log) - 1]) = 4

(***************************************************************************)
(* C30                                                                     *)
(***************************************************************************)
\* C30: a failing existence probe is never surfaced as an error: an error
\* notification never follows a probe, only a failed command or write; a
\* failed probe followed by a successful creation lets Install go on; and an
\* Install that failed in the user or group stage failed at useradd or
\* groupadd, issued after the failed probe, and returned that command's error.
C30_ProbeFailureNotAnError ==
  (op = "Install" \/ Returned("Install")) =>
    /\ \A i \in 1..Len(log) :
         log[i].k = "err" => (i > 1 /\ Failed(log[i - 1]) /\ log[i - 1].k # "probe")
    /\ \A i \in 1..Len(log) :
         (log[i].k = "probe" /\ log[i].r = "fail") =>
           /\ i < Len(log) /\ log[i + 1].k = "cmd"
           /\ log[i + 1].r = "ok" => (op = "Install" \/ Len(log) > i + 1)
    /\ (Returned("Install") /\ ret # NilErr.msg /\ Reached \in {1, 2}) =>
         LET o == Ops(log)
             n == Len(o)
         IN /\ n >= 2
            /\ o[n].k = "cmd" /\ o[n].r = "fail"
            /\ o[n].a \in {UseraddCmd(cfg), GroupaddCmd(cfg)}
            /\ o[n - 1].k = "probe" /\ o[n - 1].r = "fail"
            /\ ret = Wrap(IF o[n].a = UseraddCmd(cfg)
                          THEN "failed to create user " \o cfg.User
                          ELSE "failed to create group " \o cfg.Group,
                          CmdErr(o[n].a)).msg

\* A first Install that returned nil: both probes failed, both creations
\* succeeded, no error notification was sent.
C30_Witness ==
  /\ Returned("Install") /\ ret = NilErr.msg /\ Len(hist) = 1
  /\ OpsAt(Ops(log), "probe", IdCmd(cfg), "fail") = {1}
  /\ OpsAt(Ops(log), "probe", GetentCmd(cfg), "fail") = {3}
  /\ \A i \in 1..Len(log) : log[i].k # "err"


\* An Install that failed in the user or group stage.
C30_FailedInEnsure ==
  Returned("Install") /\ ret # NilErr.msg /\ Reached \in {1, 2}


(***************************************************************************)
(* NewServiceConfig with options of the caller's own that assign the       *)
(* derived fields, then NewManager on the returned config, then Install    *)
(* and Uninstall of that Manager.                                          *)
(***************************************************************************)
\* The fields NewServiceConfig derives.
DerivedFields == {"UniqueName", "ServiceName", "SystemdFile"}

\* The options a call chooses from: for each derived field one that empties
\* it and one that names it, and two of the package's options.
AdjustPool ==
  {SetField("UniqueName", ""), SetField("UniqueName", "custom"),
   SetField("ServiceName", ""), SetField("ServiceName", "custom.service"),
   SetField("SystemdFile", ""), SetField("SystemdFile", "/custom/path/test.service"),
   WithLogrotate,
   WithStream("CORE", "core.log")}

AdjustSeqs == UNION {[1..n -> AdjustPool] : n \in 0..MaxOpts}

\* NewServiceConfig(user, group, bin, logDir, opts...) has built its base
\* configuration.
AdjustInit ==
  /\ build \in {[stage |-> "opts", bin |-> b, logDir |-> "/var/log/app", opts |-> os, i |-> 0,
                 c |-> BaseConfig("svc", "svc", b, "/var/log/app")] :
                  b \in SamplePaths, os \in AdjustSeqs}
  /\ peer = NoPeer
  /\ senders = NoSenders
  /\ cfg = NoManager
  /\ infoChan = NilChan
  /\ errChan = NilChan
  /\ users = {}
  /\ groups = {}
  /\ fs = [p \in {} |-> <<>>]
  /\ svc = [enabled |-> FALSE, active |-> FALSE]
  /\ op = "idle"
  /\ pc = "idle"
  /\ pending = {}
  /\ idx = 0
  /\ ret = Running
  /\ log = <<>>
  /\ hist = <<>>

\* m := NewManager(&config) on the config NewServiceConfig returned.
ManageBuilt ==
  /\ build.stage = "returned"
  /\ cfg' = NewManager(build.c)
  /\ build' = [build EXCEPT !.stage = "managed"]
  /\ UNCHANGED <<peer, senders, infoChan, errChan, users, groups, fs, svc,
                 op, pc, pending, idx, ret, log, hist>>

AdjustNext ==
  \/ ApplyNextOpt
  \/ ReturnConfig
  \/ ManageBuilt
  \/ build.stage = "managed" /\ CallInstall
  \/ build.stage = "managed" /\ CallUninstall
  \/ ManagerStep

AdjustSpec == AdjustInit /\ [][AdjustNext]_vars


(***************************************************************************)
(* C31                                                                     *)
(***************************************************************************)
\* The options of the call that assign the field f.
Assigns(f) ==
  {j \in 1..Len(build.opts) : build.opts[j].t = "SetField" /\ build.opts[j].a = f}

\* The value the last option that assigned f gave it.
LastAssigned(f) ==
  build.opts[CHOOSE j \in Assigns(f) : \A k \in Assigns(f) : k <= j].b

\* The value the options left in f: empty when none assigned it.
LeftByOpts(f) == IF Assigns(f) = {} THEN "" ELSE LastAssigned(f)

\* The default of a derived field: the slug and the service name from the
\* binary path, the install path from the service name of the config c.
DefaultOf(f, c) ==
  CASE f = "UniqueName" -> UniqueNameOf(build.bin)
    [] f = "ServiceName" -> UniqueNameOf(build.bin) \o ".service"
    [] f = "SystemdFile" -> "/etc/systemd/system/" \o c.ServiceName

PathNotAssigned == Assigns("SystemdFile") = {}

\* The default path of the service name of the returned config.
PathOfServiceName == "/etc/systemd/system/" \o build.c.ServiceName

\* C32: when no option assigned the install path, the Manager's unit file
\* path is /etc/systemd/system/<service name> for the service name of the
\* returned config; Install writes the unit file there and Uninstall removes
\* it from there.
C32_UnitPathFollowsServiceName ==
  /\ [](PathNotAssigned /\ build.stage = "managed" => cfg.SystemdFile = PathOfServiceName)
  /\ [][PathNotAssigned /\ op = "Install" /\ pc = "I_unit" =>
          /\ Len(log') > Len(log)
          /\ log'[Len(log) + 1].k = "write" /\ log'[Len(log) + 1].a = PathOfServiceName]_vars
  /\ [][PathNotAssigned /\ op = "Uninstall" /\ pc = "U_remove" /\ idx = 1 =>
          /\ Len(log') > Len(log)
          /\ log'[Len(log) + 1].k = "remove" /\ log'[Len(log) + 1].a = PathOfServiceName]_vars

\* The same for the calls in which no option assigned the service name.
C32_UnitPathOfDerivedName ==
  /\ []((PathNotAssigned /\ Assigns("ServiceName") = {} /\ build.stage = "managed") =>
          cfg.SystemdFile = PathOfServiceName)
  /\ [][(PathNotAssigned /\ Assigns("ServiceName") = {} /\ op = "Install" /\ pc = "I_unit") =>
          /\ Len(log') > Len(log)
          /\ log'[Len(log) + 1].k = "write" /\ log'[Len(log) + 1].a = PathOfServiceName]_vars
  /\ [][(PathNotAssigned /\ Assigns("ServiceName") = {} /\ op = "Uninstall" /\ pc = "U_remove" /\ idx = 1) =>
          /\ Len(log') > Len(log)
          /\ log'[Len(log) + 1].k = "remove" /\ log'[Len(log) + 1].a = PathOfServiceName]_vars

(***************************************************************************)
(* Install and Uninstall of one Manager called from two goroutines: the    *)
(* Install runs as above, the Uninstall beside it in peer.  They share the *)
(* config, the channels, the file system and the service manager; the code *)
(* takes no lock.  peer.log is the log of the Uninstall.                    *)
(***************************************************************************)
\* The configs of the race: those with a log directory.
RaceConfigs == {NewManager(c0) : c0 \in {c \in CallerConfigs : c.LogDir # ""}}

\* The Manager exists, neither call has been made.
RaceInit ==
  /\ build = NoBuild
  /\ peer = [stage |-> "idle", idx |-> 0, ret |-> Running, log |-> <<>>]
  /\ senders = NoSenders
  /\ cfg \in RaceConfigs
  /\ infoChan = NilChan
  /\ errChan = NilChan
  /\ users = {}
  /\ groups = {}
  /\ fs = [p \in {} |-> <<>>]
  /\ svc = [enabled |-> FALSE, active |-> FALSE]
  /\ op = "idle"
  /\ pc = "idle"
  /\ pending = {}
  /\ idx = 0
  /\ ret = Running
  /\ log = <<>>
  /\ hist = <<>>

\* The second goroutine calls Uninstall: the announcement.
PeerCallUninstall ==
  /\ peer.stage = "idle"
  /\ LET msg == "Uninstalling service: " \o cfg.ServiceName
         s == infof(infoChan, msg)
     IN /\ s.ready
        /\ infoChan' = s.ch
        /\ peer' = [peer EXCEPT !.stage = "U_disable", !.log = <<Ev("info", msg, "-")>>]
  /\ UNCHANGED <<build, senders, cfg, errChan, users, groups, fs, svc,
                 op, pc, pending, idx, ret, log, hist>>

\* _ = execCommand("systemctl", "disable", ...) of the second goroutine.
PeerUninstallDisable ==
  /\ peer.stage = "U_disable"
  /\ \E ok \in BOOLEAN :
       /\ peer' = [peer EXCEPT !.stage = "U_stop",
                               !.log = Append(@, Ev("cmd", DisableCmd(cfg), Res(ok)))]
       /\ svc' = IF ok THEN [svc EXCEPT !.enabled = FALSE] ELSE svc
  /\ UNCHANGED <<build, senders, cfg, infoChan, errChan, users, groups, fs,
                 op, pc, pending, idx, ret, log, hist>>

\* systemctl stop of the second goroutine, taken to stop the service
\* whatever its result.
PeerUninstallStop_Always ==
  /\ peer.stage = "U_stop"
  /\ \E ok \in BOOLEAN :
       /\ peer' = [peer EXCEPT !.stage = "U_remove", !.idx = 1,
                               !.log = Append(@, Ev("cmd", StopCmd(cfg), Res(ok)))]
       /\ svc' = [svc EXCEPT !.active = FALSE]
  /\ UNCHANGED <<build, senders, cfg, infoChan, errChan, users, groups, fs,
                 op, pc, pending, idx, ret, log, hist>>

\* _ = execCommand("systemctl", "stop", ...) of the second goroutine.
PeerUninstallStop ==
  /\ peer.stage = "U_stop"
  /\ \E ok \in BOOLEAN :
       /\ peer' = [peer EXCEPT !.stage = "U_remove", !.idx = 1,
                               !.log = Append(@, Ev("cmd", StopCmd(cfg), Res(ok)))]
       /\ svc' = IF ok THEN [svc EXCEPT !.active = FALSE] ELSE svc
  /\ UNCHANGED <<build, senders, cfg, infoChan, errChan, users, groups, fs,
                 op, pc, pending, idx, ret, log, hist>>

\* One iteration of the loop over filesToRemove of the second goroutine.
PeerUninstallRemove ==
  /\ peer.stage = "U_remove"
  /\ LET path == filesToRemove(cfg)[peer.idx] IN
     \E r \in RemoveOutcomes(path) :
       LET e == RemoveResult(path, r)
       IN /\ fs' = IF r = "ok" THEN FsRemove(path) ELSE fs
          /\ IF e # NilErr /\ ~IsNotExist(e)
             THEN LET s == error(errChan, e)
                  IN /\ s.ready
                     /\ errChan' = s.ch
                     /\ infoChan' = infoChan
                     /\ peer' = [peer EXCEPT !.stage = AfterRemove(cfg, peer.idx), !.idx = @ + 1,
                                             !.log = @ \o <<Ev("remove", path, r),
                                                            Ev("err", e.msg, "-")>>]
             ELSE LET s == infof(infoChan, "Removed: " \o path)
                  IN /\ s.ready
                     /\ infoChan' = s.ch
                     /\ errChan' = errChan
                     /\ peer' = [peer EXCEPT !.stage = AfterRemove(cfg, peer.idx), !.idx = @ + 1,
                                             !.log = @ \o <<Ev("remove", path, r),
                                                            Ev("info", "Removed: " \o path, "-")>>]
  /\ UNCHANGED <<build, senders, cfg, users, groups, svc,
                 op, pc, pending, idx, ret, log, hist>>

\* systemctl daemon-reload of the second goroutine, and its return.
PeerUninstallReload ==
  /\ peer.stage = "U_reload"
  /\ \E ok \in BOOLEAN :
       IF ok
       THEN LET msg == "Systemd daemon configuration reloaded"
                s == infof(infoChan, msg)
            IN /\ s.ready
               /\ infoChan' = s.ch
               /\ errChan' = errChan
               /\ peer' = [peer EXCEPT !.stage = "returned", !.ret = NilErr.msg,
                                       !.log = @ \o <<Ev("cmd", ReloadCmd, "ok"),
                                                      Ev("info", msg, "-")>>]
       ELSE LET s == error(errChan, CmdErr(ReloadCmd))
            IN /\ s.ready
               /\ errChan' = s.ch
               /\ infoChan' = infoChan
               /\ peer' = [peer EXCEPT !.stage = "returned", !.ret = CmdErr(ReloadCmd).msg,
                                       !.log = @ \o <<Ev("cmd", ReloadCmd, "fail"),
                                                      Ev("err", CmdErr(ReloadCmd).msg, "-")>>]
  /\ UNCHANGED <<build, senders, cfg, users, groups, fs, svc,
                 op, pc, pending, idx, ret, log, hist>>

PeerUninstall ==
  \/ PeerUninstallDisable
  \/ PeerUninstallStop
  \/ PeerUninstallRemove
  \/ PeerUninstallReload

\* One Install and one Uninstall, each step of either at any time.
RaceNext ==
  \/ hist = <<>> /\ CallInstall
  \/ Install
  \/ PeerCallUninstall
  \/ PeerUninstall

RaceSpec == RaceInit /\ [][RaceNext]_vars


(***************************************************************************)
(* C33                                                                     *)
(***************************************************************************)
\* The Uninstall of the second goroutine issued the operation k on a with
\* the result r.
PeerDid(k, a, r) == \E i \in 1..Len(peer.log) : peer.log[i] = Ev(k, a, r)

\* Both calls have returned nil.
BothReturnedNil ==
  /\ Returned("Install") /\ ret = NilErr.msg
  /\ peer.stage = "returned" /\ peer.ret = NilErr.msg

ErrorsOffered == {i \in 1..Len(log) : log[i].k = "err"}

\* C34: an Install call offers at most one error to the error channel; the
\* offer is the last thing it does before it returns, and the error offered is
\* the one returned; a call that returns an error has offered it, a call that
\* returns nil has offered none, and no stage follows an offer.
C34_OneErrorPerInstall ==
  (op = "Install" \/ Returned("Install")) =>
    /\ Cardinality(ErrorsOffered) <= 1
    /\ \A i \in ErrorsOffered :
         /\ i = Len(log)
         /\ Returned("Install")
         /\ ret # NilErr.msg
         /\ log[i].a = ret
    /\ (Returned("Install") /\ ret = NilErr.msg) => ErrorsOffered = {}
    /\ (Returned("Install") /\ ret # NilErr.msg) => ErrorsOffered = {Len(log)}

\* An Install that failed at daemon-reload: its one error is in the buffer of
\* the error channel and is the value returned.
C34_Witness ==
  /\ Returned("Install")
  /\ ret = CmdErr(ReloadCmd).msg
  /\ ErrorsOffered = {Len(log)}
  /\ ~errChan.nil /\ errChan.buf = <<ret>>


(***************************************************************************)
(* C35                                                                     *)
(***************************************************************************)
\* The entry of the log is a notification attempt.
IsNote(e) == e.k \in {"info", "err"}

\* C35: each os.Remove of Uninstall is followed by exactly one notification
\* attempt, m.error with the removal's error when the removal was refused for
\* another reason than a missing file, else m.infof("Removed: <path>"); when
\* the 'Removed' message is sent the path does not exist, whether the file was
\* removed or was never there, and a refused removal leaves the files as they
\* were.
C35_OneNotePerRemoval ==
  /\ [](CurOp = "Uninstall" =>
          \A i \in 1..Len(log) : log[i].k = "remove" =>
            /\ i < Len(log)
            /\ log[i + 1] = RemovalNote(log[i].a, log[i].r)
            /\ (i + 1 < Len(log) => ~IsNote(log[i + 2])))
  /\ [][(op = "Uninstall" /\ pc = "U_remove" /\ log' # log) =>
          LET path == filesToRemove(cfg)[idx]
              n == Len(log)
          IN /\ Len(log') = n + 2
             /\ log'[n + 1].k = "remove" /\ log'[n + 1].a = path
             /\ log'[n + 2].k = "err" <=> log'[n + 1].r = "fail"
             /\ log'[n + 2].k = "err" => (log'[n + 2].a = RemoveErr(path).msg /\ fs' = fs)
             /\ log'[n + 2].k = "info" =>
                  /\ log'[n + 2].a = "Removed: " \o path
                  /\ path \notin DOMAIN fs'
                  /\ log'[n + 1].r = "notexist" <=> path \notin DOMAIN fs]_vars

\* An Uninstall with nothing installed before it: the unit file never
\* existed, and its 'Removed' message was sent.
C35_Witness ==
  /\ Returned("Uninstall") /\ Len(hist) = 1
  /\ \E i \in 1..(Len(log) - 1) :
       /\ log[i] = Ev("remove", cfg.SystemdFile, "notexist")
       /\ log[i + 1] = Ev("info", "Removed: " \o cfg.SystemdFile, "-")
  /\ \E i \in 1..(Len(log) - 1) :
       /\ log[i] = Ev("remove", rsyslogPath(cfg), "fail")
       /\ log[i + 1] = Ev("err", RemoveErr(rsyslogPath(cfg)).msg, "-")


(***************************************************************************)
(* C36                                                                     *)
(***************************************************************************)
\* The second Install of the Manager is in progress, the first returned nil.
SecondInstall == op = "Install" /\ hist = <<[op |-> "Install", ok |-> TRUE]>>

\* The second Install has returned too.
SecondInstallReturned ==
  /\ op = "idle" /\ Len(hist) = 2
  /\ hist[1] = [op |-> "Install", ok |-> TRUE]
  /\ hist[2].op = "Install"

\* The second Install issued no useradd and no groupadd: its probes found
\* the user and the group.
NoCreateInSecond ==
  (SecondInstall \/ SecondInstallReturned) =>
    \A i \in 1..Len(log) :
      /\ log[i].k = "cmd" => log[i].a \notin {UseraddCmd(cfg), GroupaddCmd(cfg)}
      /\ log[i].k = "probe" => log[i].r = "ok"

\* C36 as stated: no step of an Install that follows a successful Install of
\* the same config changes the set of files or the content of a file, and it
\* issues no account-create command.
C36_InstallIdempotent ==
  /\ [][SecondInstall => fs' = fs]_vars
  /\ []NoCreateInSecond

\* C36: no step of an Install that follows a successful Install of the same
\* config changes the set of files or the content of a file other than the
\* relay configuration, which it may write with the same header and the same
\* rules in another order; it issues no account-create command and leaves the
\* accounts as they are.
C36_IdempotentButRuleOrder ==
  /\ [][SecondInstall =>
          /\ DOMAIN fs' = DOMAIN fs
          /\ \A p \in DOMAIN fs : p # rsyslogPath(cfg) => fs'[p] = fs[p]
          /\ rsyslogPath(cfg) \in DOMAIN fs =>
               (fs[rsyslogPath(cfg)] \in RelayTexts(cfg) /\ fs'[rsyslogPath(cfg)] \in RelayTexts(cfg))
          /\ users' = users /\ groups' = groups]_vars
  /\ []NoCreateInSecond

\* Two Installs of a config with two streams returned nil, the second after
\* writing every file again.
C36_Witness ==
  /\ SecondInstallReturned /\ hist[2].ok
  /\ cfg.LogDir # "" /\ cfg.MakeLogrotate /\ MapLen(cfg.Streams) = 2
  /\ OpsAt(Ops(log), "write", rsyslogPath(cfg), "ok") # {}
  /\ OpsAt(Ops(log), "write", cfg.SystemdFile, "ok") # {}
  /\ OpsAt(Ops(log), "probe", IdCmd(cfg), "ok") = {1}


(***************************************************************************)
(* C37                                                                     *)
(***************************************************************************)
\* The command lines Uninstall issues.
UninstallCmds == {DisableCmd(cfg), StopCmd(cfg), ReloadCmd}

\* C37: Uninstall issues no probe, no account command and no write: its
\* commands are disable, stop and daemon-reload, its file operations are
\* removals; no step of it changes the users or the groups, adds a file or
\* changes the content of a file.
C37_UninstallLeavesAccounts ==
  /\ [](CurOp = "Uninstall" =>
          \A i \in 1..Len(log) :
            /\ log[i].k \notin {"probe", "write"}
            /\ log[i].k = "cmd" => log[i].a \in UninstallCmds)
  /\ [][op = "Uninstall" =>
          /\ users' = users /\ groups' = groups
          /\ DOMAIN fs' \subseteq DOMAIN fs
          /\ \A p \in DOMAIN fs' : fs'[p] = fs[p]]_vars

\* An Uninstall returned after a successful Install, having removed the unit
\* file: the user and the group the Install created are still there.
C37_Witness ==
  /\ Returned("Uninstall") /\ Len(hist) = 2
  /\ hist[1] = [op |-> "Install", ok |-> TRUE]
  /\ OpsAt(Ops(log), "remove", cfg.SystemdFile, "ok") # {}
  /\ cfg.User \in users /\ cfg.Group \in groups


(***************************************************************************)
(* Two runs of the same calls on the same config, compared step by step.   *)
(* The lead run has any channels and any observers; the twin run has no    *)
(* channels.  The variables hold the run that steps next and peer.s holds  *)
(* the other; after each step of the lead the two are exchanged, the twin  *)
(* takes the same step with the same outcomes of its commands and file     *)
(* operations, and they are exchanged back.                                *)
(***************************************************************************)
\* The run held in the variables.
Shot ==
  [infoChan |-> infoChan, errChan |-> errChan, users |-> users, groups |-> groups,
   fs |-> fs, svc |-> svc, op |-> op, pc |-> pc, pending |-> pending, idx |-> idx,
   ret |-> ret, log |-> log, hist |-> hist]

\* What a run did and left, the channels and the notifications aside: its
\* commands and file operations with their results, where it stands, what it
\* returned, and the accounts, files and service it leaves.
Visible(s) ==
  [users |-> s.users, groups |-> s.groups, fs |-> s.fs, svc |-> s.svc,
   op |-> s.op, pc |-> s.pc, pending |-> s.pending, idx |-> s.idx,
   ret |-> s.ret, ops |-> Ops(s.log), hist |-> s.hist]

\* The lead run and the twin run.
Lead == IF peer.role = "twin" THEN Shot ELSE peer.s
Twin == IF peer.role = "twin" THEN peer.s ELSE Shot

\* The two runs stand at the same point with the same results.
Caught == Visible(Shot) = Visible(peer.s)

\* The Manager exists in both runs, with no channels in the twin run.
TwinInit ==
  /\ build = NoBuild
  /\ senders = NoSenders
  /\ cfg \in {NewManager(c0) : c0 \in CallerConfigs}
  /\ infoChan \in Channels
  /\ errChan \in Channels
  /\ users = {}
  /\ groups = {}
  /\ fs = [p \in {} |-> <<>>]
  /\ svc = [enabled |-> FALSE, active |-> FALSE]
  /\ op = "idle"
  /\ pc = "idle"
  /\ pending = {}
  /\ idx = 0
  /\ ret = Running
  /\ log = <<>>
  /\ hist = <<>>
  /\ peer = [role |-> "twin",
             s |-> [infoChan |-> NilChan, errChan |-> NilChan, users |-> {}, groups |-> {},
                    fs |-> [p \in {} |-> <<>>], svc |-> [enabled |-> FALSE, active |-> FALSE],
                    op |-> "idle", pc |-> "idle", pending |-> {}, idx |-> 0,
                    ret |-> Running, log |-> <<>>, hist |-> <<>>]]

\* The caller of the lead run calls Install or Uninstall.
LeadCalls ==
  /\ peer.role = "twin" /\ Caught
  /\ Len(hist) < MaxTwinCalls
  /\ (CallInstall \/ CallUninstall)

\* A step of the call of the lead run.
LeadSteps == peer.role = "twin" /\ Caught /\ ManagerStep

\* The observers of the lead run.
LeadObserved == peer.role = "twin" /\ Caught /\ (ObserveInfo \/ ObserveErr)

\* The run that stepped gives way to the other.
Exchange ==
  /\ \/ peer.role = "twin" /\ ~Caught
     \/ peer.role = "lead" /\ Caught
  /\ peer' = [role |-> IF peer.role = "twin" THEN "lead" ELSE "twin", s |-> Shot]
  /\ infoChan' = peer.s.infoChan
  /\ errChan' = peer.s.errChan
  /\ users' = peer.s.users
  /\ groups' = peer.s.groups
  /\ fs' = peer.s.fs
  /\ svc' = peer.s.svc
  /\ op' = peer.s.op
  /\ pc' = peer.s.pc
  /\ pending' = peer.s.pending
  /\ idx' = peer.s.idx
  /\ ret' = peer.s.ret
  /\ log' = peer.s.log
  /\ hist' = peer.s.hist
  /\ UNCHANGED <<build, senders, cfg>>

\* The step of the twin run gets what the step of the lead run got from
\* outside: the same call of the caller, the same results of the commands and
\* file operations, the same order of the ranges over the stream map.
SameOutcomes ==
  /\ op = "idle" => op' = peer.s.op
  /\ LET o == Ops(log')
         l == Ops(peer.s.log)
     IN \A i \in 1..Len(o) : i <= Len(l) =>
          /\ o[i].r = l[i].r
          /\ o[i].a \in RotationPaths => o[i].a = l[i].a
  /\ pending' = peer.s.pending
  /\ (rsyslogPath(cfg) \in DOMAIN fs' /\ rsyslogPath(cfg) \in DOMAIN peer.s.fs) =>
       fs'[rsyslogPath(cfg)] = peer.s.fs[rsyslogPath(cfg)]

\* The twin run takes its step.
TwinFollows ==
  /\ peer.role = "lead" /\ ~Caught
  /\ (CallInstall \/ CallUninstall \/ ManagerStep)
  /\ SameOutcomes

TwinNext ==
  \/ LeadCalls
  \/ LeadSteps
  \/ LeadObserved
  \/ Exchange
  \/ TwinFollows

TwinSpec == TwinInit /\ [][TwinNext]_vars


(***************************************************************************)
(* C38                                                                     *)
(***************************************************************************)
\* The twin run has not yet taken the step the lead run took.
TwinBehind ==
  \/ Len(Twin.hist) < Len(Lead.hist)
  \/ Len(Twin.hist) = Len(Lead.hist) /\ Twin.op = "idle" /\ Lead.op # "idle"
  \/ Len(Twin.hist) = Len(Lead.hist) /\ Twin.op = Lead.op /\ Twin.op # "idle"
       /\ Len(Twin.log) < Len(Lead.log)

\* C38: a run with any channels, buffered or not, full or drained by its
\* observers at any time, and the run without channels that makes the same
\* calls and gets the same results from its commands and file operations go
\* step by step through the same commands and file operations and return the
\* same values: the run without channels can always take the step of the
\* other, after it the two stand at the same point, and two calls that have
\* both returned issued the same operations and returned the same value.
C38_ChannelsDoNotInfluence ==
  /\ Caught \/ TwinBehind
  /\ (peer.role = "lead" /\ ~Caught) => ENABLED TwinFollows
  /\ (Lead.op = "idle" /\ Twin.op = "idle" /\ Len(Lead.hist) = Len(Twin.hist)) =>
       /\ Ops(Lead.log) = Ops(Twin.log)
       /\ Lead.ret = Twin.ret
       /\ Lead.hist = Twin.hist

\* An Install returned nil in both runs after the same operations; the lead
\* run has an unbuffered info channel nobody receives from, so that each of
\* its notifications was dropped, the twin run has no channel.
C38_Witness ==
  /\ peer.role = "twin" /\ Caught
  /\ Returned("Install") /\ ret = NilErr.msg
  /\ ~infoChan.nil /\ infoChan.cap = 0 /\ ~infoChan.rdy
  /\ peer.s.infoChan.nil /\ peer.s.errChan.nil
  /\ peer.s.ret = NilErr.msg
  /\ Ops(log) = Ops(peer.s.log)
  /\ Len(Ops(log)) >= 7

====
